---- MODULE Spec2Model ----
(***************************************************************************)
(* Model of the DSP core of quadrature-signal-lab (src/dsp/iq.js,          *)
(* src/dsp/fft.js) as a state machine whose state is the library call in   *)
(* flight: the operation (op), its arguments (args), whether it has        *)
(* returned (pc) and what it returned (ret), plus the locals of the        *)
(* nextPow2 loop.  The core keeps nothing between calls, so a behaviour is *)
(* one call: the initial state holds the arguments, the action runs it.    *)
(* A session of calls on arrays that are held by address has the arrays    *)
(* allocated so far (heap), the addresses the caller holds (held) and the  *)
(* record of the calls made (log).  The Real app (real/App.jsx) has the    *)
(* state of its hooks and the results of its memo (app).                   *)
(*                                                                         *)
(* Numbers.  A JavaScript double is modelled as an exact real of the field *)
(* Q(sqrt 2): the triple <<a, b, d>> is (a + b*sqrt(2)) / d, with d > 0    *)
(* and gcd(a, b, d) = 1.  The field holds every rational and the cosine    *)
(* and sine of every multiple of an eighth of a turn, so that the mixer    *)
(* and the FFT up to 8 points are computed exactly.  <<0, 0, 0>> is NaN.   *)
(* Arrays are sequences: the JavaScript index i is the TLA+ index i + 1.   *)
(***************************************************************************)
EXTENDS Integers, Sequences, FiniteSets, TLC

VARIABLES op, args, ret, pc, p2_n, p2_p, p2_pc, p2_iter, heap, held, log, app

vars == <<op, args, ret, pc, p2_n, p2_p, p2_pc, p2_iter, heap, held, log, app>>
callVars == <<op, args, ret, pc>>
p2Vars == <<p2_n, p2_p, p2_pc, p2_iter>>
heapVars == <<heap, held, log>>

(***************************************************************************)
(* Bounds of the model.                                                    *)
(***************************************************************************)
MaxRateNum == 6
MaxDurNum == 7
MaxLen == 3
MaxFreq == 4
MaxAmp == 2
MaxFFTLen == 7
MaxIQLen == 3
MaxDbLen == 3
MaxShortLen == 40
MaxFilterLen == 4
MaxWindow == 3
MaxConstLen == 10
IterCap == 34
MaxSnrSpan == 3
DrawPeriod == 2
MaxCalls == 2
MaxCaptureList == 3
MaxCaptures == 11
MaxBadgeTenths == 300

(***************************************************************************)
(* Real arithmetic in Q(sqrt 2).                                           *)
(***************************************************************************)
Abs(n) == IF n < 0 THEN -n ELSE n

RECURSIVE Gcd(_, _)
Gcd(a, b) == IF b = 0 THEN a ELSE Gcd(b, a % b)

Norm(a, b, d) ==
    LET g == Gcd(Gcd(Abs(a), Abs(b)), Abs(d))
        s == IF d < 0 THEN -1 ELSE 1
    IN  <<(s * a) \div g, (s * b) \div g, (s * d) \div g>>

NaN == <<0, 0, 0>>
IsNaN(x) == x = NaN

IntR(n) == <<n, 0, 1>>
Rat(n, d) == Norm(n, 0, d)
Zero == IntR(0)
One == IntR(1)

\* over the least common denominator
Add(x, y) ==
    LET g == Gcd(x[3], y[3])
        xs == y[3] \div g
        ys == x[3] \div g
    IN  Norm(x[1] * xs + y[1] * ys, x[2] * xs + y[2] * ys, ys * y[3])
Neg(x) == <<-x[1], -x[2], x[3]>>
Sub(x, y) == Add(x, Neg(y))
Mul(x, y) == Norm(x[1] * y[1] + 2 * x[2] * y[2], x[1] * y[2] + x[2] * y[1], x[3] * y[3])
\* 1 / ((a + b*sqrt 2) / d) = d * (a - b*sqrt 2) / (a^2 - 2*b^2)
Inv(x) ==
    IF x[2] = 0 /\ x[1] # 0 THEN Norm(x[3], 0, x[1])
    ELSE Norm(x[3] * x[1], -(x[3] * x[2]), x[1] * x[1] - 2 * x[2] * x[2])
Div(x, y) == Mul(x, Inv(y))

SgnInt(n) == IF n > 0 THEN 1 ELSE IF n < 0 THEN -1 ELSE 0
\* the sign of a + b*sqrt 2 (d > 0)
Sgn(x) ==
    LET a == x[1]
        b == x[2]
    IN  IF a >= 0 /\ b >= 0 THEN SgnInt(a + b)
        ELSE IF a <= 0 /\ b <= 0 THEN -1
        ELSE IF a > 0 THEN SgnInt(a * a - 2 * b * b)
        ELSE SgnInt(2 * b * b - a * a)

Less(x, y) == Sgn(Sub(x, y)) < 0
Leq(x, y) == Sgn(Sub(x, y)) <= 0

IsRational(x) == x[2] = 0 /\ x[3] > 0
IsInteger(x) == x[2] = 0 /\ x[3] = 1
\* Math.floor of a rational
Floor(x) == x[1] \div x[3]

(***************************************************************************)
(* Math.cos and Math.sin of TWO_PI * x, for x a number of turns that is a  *)
(* multiple of 1/8.                                                        *)
(***************************************************************************)
HalfSqrt2 == <<0, 1, 2>>

CosEighth(k) ==
    LET m == k % 8
    IN  IF m = 0 THEN One
        ELSE IF m = 1 \/ m = 7 THEN HalfSqrt2
        ELSE IF m = 2 \/ m = 6 THEN Zero
        ELSE IF m = 3 \/ m = 5 THEN Neg(HalfSqrt2)
        ELSE Neg(One)

OnGrid(x) == IsInteger(Mul(IntR(8), x))
Eighths(x) == Mul(IntR(8), x)[1]

CosTwoPi(x) == CosEighth(Eighths(x))
SinTwoPi(x) == CosEighth(Eighths(x) - 2)

(***************************************************************************)
(* Arrays.                                                                 *)
(***************************************************************************)
At(a, i) == a[i + 1]
\* new Float64Array(len): ToIndex truncates a fractional length
NewFloat64Array(len) == [i \in 1..Floor(len) |-> Zero]

(***************************************************************************)
(* iq.js: generateTimeArray                                                *)
(***************************************************************************)
\* mutant: Math.ceil in place of Math.floor
generateTimeArray_ceil(sampleRate, duration) ==
    LET numSamples == -Floor(Neg(Mul(sampleRate, duration)))
    IN  IF numSamples < 0
        THEN [raised |-> TRUE, t |-> <<>>]
        ELSE [raised |-> FALSE,
              t |-> [k \in 1..numSamples |-> Div(IntR(k - 1), sampleRate)]]

\* raised = TRUE: `new Float64Array(numSamples)` threw a RangeError, the
\* length being negative
generateTimeArray(sampleRate, duration) ==
    LET numSamples == Floor(Mul(sampleRate, duration))
    IN  IF numSamples < 0
        THEN [raised |-> TRUE, t |-> <<>>]
        ELSE [raised |-> FALSE,
              t |-> [k \in 1..numSamples |-> Div(IntR(k - 1), sampleRate)]]

(***************************************************************************)
(* iq.js: generateSignal                                                   *)
(* A params object is a record of its six possible fields, each a number   *)
(* or Undef when the object has no such field; obj = FALSE is an absent    *)
(* params argument (undefined).                                            *)
(***************************************************************************)
Undef == <<0, 0, -1>>

Params(f, a, fc, fm, m, fe) ==
    [obj |-> TRUE, frequency |-> f, amplitude |-> a, carrierFreq |-> fc,
     modulatingFreq |-> fm, modulationIndex |-> m, chirpEndFreq |-> fe]

NoParams ==
    [obj |-> FALSE, frequency |-> Undef, amplitude |-> Undef, carrierFreq |-> Undef,
     modulatingFreq |-> Undef, modulationIndex |-> Undef, chirpEndFreq |-> Undef]

\* const { field = default } = params
Destructure(params, field, default) ==
    IF params[field] = Undef THEN default ELSE params[field]

KnownTypes == {"sine", "cosine", "square", "sawtooth", "am", "fm", "chirp"}

\* Math.cos(TWO_PI * turns + rad): in the table only when rad = 0
CosPhase(turns, rad) == IF rad = Zero THEN CosTwoPi(turns) ELSE NaN

\* IEEE arithmetic on the extended reals: x / 0 is an infinity or NaN,
\* infinity * 0 and infinity - infinity are NaN (the sign of a zero is not
\* represented)
Infinite(x) == x = <<1, 0, 0>> \/ x = <<-1, 0, 0>>
Real(x) == x[3] > 0
SignedInf(s) == IF s > 0 THEN <<1, 0, 0>> ELSE <<-1, 0, 0>>
FMul(x, y) ==
    IF IsNaN(x) \/ IsNaN(y) THEN NaN
    ELSE IF Infinite(x) \/ Infinite(y)
    THEN IF x = Zero \/ y = Zero THEN NaN ELSE SignedInf(Sgn(x) * Sgn(y))
    ELSE Mul(x, y)
FAdd(x, y) ==
    IF IsNaN(x) \/ IsNaN(y) THEN NaN
    ELSE IF Infinite(x) /\ Infinite(y) THEN IF x = y THEN x ELSE NaN
    ELSE IF Infinite(x) THEN x
    ELSE IF Infinite(y) THEN y
    ELSE Add(x, y)
FDiv(x, y) ==
    IF IsNaN(x) \/ IsNaN(y) THEN NaN
    ELSE IF Infinite(y) THEN IF Infinite(x) THEN NaN ELSE Zero
    ELSE IF y = Zero THEN IF x = Zero THEN NaN ELSE SignedInf(Sgn(x))
    ELSE IF Infinite(x) THEN SignedInf(Sgn(x) * Sgn(y))
    ELSE Div(x, y)
\* Math.cos(TWO_PI * turns): NaN for an infinite or NaN argument
FCos(turns) == IF Real(turns) THEN CosTwoPi(turns) ELSE NaN

\* mutant: const duration = t[t.length - 1], undefined for an empty t
ChirpDuration_last(t) == IF Len(t) = 0 THEN NaN ELSE t[Len(t)]

\* const duration = t[t.length - 1] || 1
ChirpDuration(t) ==
    IF Len(t) = 0 THEN One
    ELSE IF t[Len(t)] = Zero THEN One
    ELSE t[Len(t)]

\* mutant: the sweep taken over one second, const rate = chirpEndFreq - carrierFreq
ChirpRate_perSecond(carrierFreq, chirpEndFreq, t) == Sub(chirpEndFreq, carrierFreq)

\* const rate = (chirpEndFreq - carrierFreq) / duration
ChirpRate(carrierFreq, chirpEndFreq, t) ==
    FDiv(Sub(chirpEndFreq, carrierFreq), ChirpDuration(t))

\* carrierFreq * t[i] + 0.5 * rate * t[i] * t[i]
ChirpTurns(carrierFreq, chirpEndFreq, t, k) ==
    LET rate == ChirpRate(carrierFreq, chirpEndFreq, t)
    IN  FAdd(Mul(carrierFreq, t[k]), FMul(FMul(FMul(Rat(1, 2), rate), t[k]), t[k]))

\* signal[k - 1] of the case for `type`; a missing field without a default
\* is undefined and makes the sample NaN
Sample(type, t, params, k) ==
    LET frequency == params.frequency
        amplitude == Destructure(params, "amplitude", One)
        carrierFreq == params.carrierFreq
        modulatingFreq == params.modulatingFreq
        chirpEndFreq == params.chirpEndFreq
    IN  CASE type = "sine" ->
               IF frequency = Undef THEN NaN
               ELSE Mul(amplitude, SinTwoPi(Mul(frequency, t[k])))
          [] type = "cosine" ->
               IF frequency = Undef THEN NaN
               ELSE Mul(amplitude, CosTwoPi(Mul(frequency, t[k])))
          [] type = "square" ->
               IF frequency = Undef THEN NaN
               ELSE Mul(amplitude, IntR(Sgn(SinTwoPi(Mul(frequency, t[k])))))
          [] type = "sawtooth" ->
               IF frequency = Undef THEN NaN
               ELSE LET phase == Mul(frequency, t[k])
                    IN  Mul(Mul(amplitude, IntR(2)),
                            Sub(phase, IntR(Floor(Add(phase, Rat(1, 2))))))
          [] type = "am" ->
               IF carrierFreq = Undef \/ modulatingFreq = Undef THEN NaN
               ELSE LET modulationIndex == Destructure(params, "modulationIndex", Rat(1, 2))
                        envelope == Add(One, Mul(modulationIndex,
                                                 CosTwoPi(Mul(modulatingFreq, t[k]))))
                    IN  Mul(envelope, CosTwoPi(Mul(carrierFreq, t[k])))
          [] type = "fm" ->
               IF carrierFreq = Undef \/ modulatingFreq = Undef THEN NaN
               ELSE LET modulationIndex == Destructure(params, "modulationIndex", IntR(2))
                    IN  CosPhase(Mul(carrierFreq, t[k]),
                                 Mul(modulationIndex, SinTwoPi(Mul(modulatingFreq, t[k]))))
          [] type = "chirp" ->
               IF carrierFreq = Undef \/ chirpEndFreq = Undef THEN NaN
               ELSE FCos(ChirpTurns(carrierFreq, chirpEndFreq, t, k))

\* mutant: params destructured before the switch
generateSignal_hoisted(type, t, params) ==
    IF params.obj
    THEN [raised |-> FALSE,
          signal |-> IF type \in KnownTypes
                     THEN [k \in 1..Len(t) |-> Sample(type, t, params, k)]
                     ELSE NewFloat64Array(IntR(Len(t)))]
    ELSE [raised |-> TRUE, signal |-> <<>>]

\* raised = TRUE: the call threw (destructuring an absent params object)
generateSignal(type, t, params) ==
    LET signal == NewFloat64Array(IntR(Len(t)))
    IN  IF type \in KnownTypes
        THEN IF params.obj
             THEN [raised |-> FALSE,
                   signal |-> [k \in 1..Len(t) |-> Sample(type, t, params, k)]]
             ELSE [raised |-> TRUE, signal |-> <<>>]
        ELSE [raised |-> FALSE, signal |-> signal]

\* every angle the case for `type` hands to Math.cos / Math.sin is a
\* multiple of an eighth of a turn (the inputs the model enumerates)
InTable(type, t, params) ==
    \A k \in 1..Len(t) :
        CASE type \in {"sine", "cosine", "square"} ->
               params.frequency # Undef => OnGrid(Mul(params.frequency, t[k]))
          [] type = "sawtooth" -> TRUE
          [] type = "am" ->
               (params.carrierFreq # Undef /\ params.modulatingFreq # Undef) =>
                   /\ OnGrid(Mul(params.carrierFreq, t[k]))
                   /\ OnGrid(Mul(params.modulatingFreq, t[k]))
          [] type = "fm" ->
               (params.carrierFreq # Undef /\ params.modulatingFreq # Undef) =>
                   /\ OnGrid(Mul(params.carrierFreq, t[k]))
                   /\ OnGrid(Mul(params.modulatingFreq, t[k]))
                   /\ Mul(Destructure(params, "modulationIndex", IntR(2)),
                          SinTwoPi(Mul(params.modulatingFreq, t[k]))) = Zero
          [] type = "chirp" ->
               (/\ params.carrierFreq # Undef
                /\ params.chirpEndFreq # Undef
                /\ Real(ChirpTurns(params.carrierFreq, params.chirpEndFreq, t, k))) =>
                   OnGrid(ChirpTurns(params.carrierFreq, params.chirpEndFreq, t, k))
          [] OTHER -> TRUE

(***************************************************************************)
(* iq.js: downconvert, upconvert                                           *)
(***************************************************************************)
\* mutant: Q mixed against +sin
downconvert_plusSin(signal, t, carrierFreq) ==
    [I |-> [k \in 1..Len(signal) |->
               Mul(signal[k], CosTwoPi(Mul(carrierFreq, t[k])))],
     Q |-> [k \in 1..Len(signal) |->
               Mul(signal[k], SinTwoPi(Mul(carrierFreq, t[k])))]]

downconvert(signal, t, carrierFreq) ==
    [I |-> [k \in 1..Len(signal) |->
               Mul(signal[k], CosTwoPi(Mul(carrierFreq, t[k])))],
     Q |-> [k \in 1..Len(signal) |->
               Mul(signal[k], Neg(SinTwoPi(Mul(carrierFreq, t[k]))))]]

\* mutant: I*cos + Q*sin
upconvert_plus(I, Q, t, carrierFreq) ==
    [k \in 1..Len(I) |->
        Add(Mul(I[k], CosTwoPi(Mul(carrierFreq, t[k]))),
            Mul(Q[k], SinTwoPi(Mul(carrierFreq, t[k]))))]

upconvert(I, Q, t, carrierFreq) ==
    [k \in 1..Len(I) |->
        Sub(Mul(I[k], CosTwoPi(Mul(carrierFreq, t[k]))),
            Mul(Q[k], SinTwoPi(Mul(carrierFreq, t[k]))))]

(***************************************************************************)
(* fft.js: nextPow2.  p is a 32-bit signed integer: p <<= 1 wraps.         *)
(***************************************************************************)
Two30 == 1073741824
WordBits == 32

\* p << 1 on a 32-bit signed integer
Shl32(p) ==
    IF p >= Two30 THEN ((p - Two30) * 2 - Two30) - Two30
    ELSE IF p < -Two30 THEN ((p + Two30) + Two30) * 2
    ELSE p * 2

RECURSIVE nextPow2Loop(_, _)
nextPow2Loop(p, n) == IF p < n THEN nextPow2Loop(Shl32(p), n) ELSE p

nextPow2(n) == nextPow2Loop(1, n)

(***************************************************************************)
(* fft.js: fftInPlace.  A buffer pair is [re |-> ..., im |-> ...].         *)
(***************************************************************************)
\* j & bit # 0, for bit a power of two or 0
BitSet(j, bit) == bit > 0 /\ (j \div bit) % 2 = 1
\* j ^ bit
XorBit(j, bit) == IF bit = 0 THEN j ELSE IF BitSet(j, bit) THEN j - bit ELSE j + bit

\* mutant: j ^= bit without the carry loop
NextReversed_noCarry(j, bit) == XorBit(j, bit)

\* while (j & bit) { j ^= bit; bit >>= 1; }  j ^= bit;
RECURSIVE NextReversed(_, _)
NextReversed(j, bit) ==
    IF BitSet(j, bit) THEN NextReversed(XorBit(j, bit), bit \div 2) ELSE XorBit(j, bit)

SwapAt(a, i, j) == [a EXCEPT ![i + 1] = a[j + 1], ![j + 1] = a[i + 1]]

\* for (let i = 1, j = 0; i < N; i++) { ... }
RECURSIVE BitReversal(_, _, _, _)
BitReversal(buf, i, j, N) ==
    IF i < N
    THEN LET jn == NextReversed(j, N \div 2)
         IN  IF i < jn
             THEN BitReversal([re |-> SwapAt(buf.re, i, jn), im |-> SwapAt(buf.im, i, jn)],
                              i + 1, jn, N)
             ELSE BitReversal(buf, i + 1, jn, N)
    ELSE buf

\* mutant: the butterfly taken on two neighbouring entries
ButterflyPair_adjacent(i, j, len) == [a |-> i + j, b |-> i + j + 1]

\* const a = i + j; const b = i + j + len / 2;
ButterflyPair(i, j, len) == [a |-> i + j, b |-> i + j + len \div 2]

\* one butterfly on the pair (a, b) with the twiddle cur
Butterfly(buf, a, b, cur) ==
    LET tRe == Sub(Mul(cur.re, At(buf.re, b)), Mul(cur.im, At(buf.im, b)))
        tIm == Add(Mul(cur.re, At(buf.im, b)), Mul(cur.im, At(buf.re, b)))
    IN  [re |-> [buf.re EXCEPT ![b + 1] = Sub(At(buf.re, a), tRe),
                               ![a + 1] = Add(At(buf.re, a), tRe)],
         im |-> [buf.im EXCEPT ![b + 1] = Sub(At(buf.im, a), tIm),
                               ![a + 1] = Add(At(buf.im, a), tIm)]]

\* for (let j = 0; j < len / 2; j++) { ... }
RECURSIVE ButterflyLoop(_, _, _, _, _, _)
ButterflyLoop(buf, i, j, len, cur, w) ==
    IF 2 * j < len
    THEN ButterflyLoop(Butterfly(buf, i + j, i + j + len \div 2, cur), i, j + 1, len,
                       [re |-> Sub(Mul(cur.re, w.re), Mul(cur.im, w.im)),
                        im |-> Add(Mul(cur.re, w.im), Mul(cur.im, w.re))],
                       w)
    ELSE buf

\* for (let i = 0; i < N; i += len) { ... }
RECURSIVE BlockLoop(_, _, _, _, _)
BlockLoop(buf, i, len, w, N) ==
    IF i < N
    THEN BlockLoop(ButterflyLoop(buf, i, 0, len, [re |-> One, im |-> Zero], w),
                   i + len, len, w, N)
    ELSE buf

\* angle = (inverse ? TWO_PI : -TWO_PI) / len, in turns
Twiddle(len, inverse) ==
    LET turns == IF inverse THEN Rat(1, len) ELSE Rat(-1, len)
    IN  [re |-> CosTwoPi(turns), im |-> SinTwoPi(turns)]

\* for (let len = 2; len <= N; len <<= 1) { ... }
RECURSIVE StageLoop(_, _, _, _)
StageLoop(buf, len, N, inverse) ==
    IF len <= N
    THEN StageLoop(BlockLoop(buf, 0, len, Twiddle(len, inverse), N), Shl32(len), N, inverse)
    ELSE buf

\* mutant: the bit-reversal permutation left out
fftInPlace_noBitReversal(re, im, inverse) ==
    LET N == Len(re)
        out == StageLoop([re |-> re, im |-> im], 2, N, inverse)
    IN  IF inverse
        THEN [re |-> [k \in 1..N |-> Div(out.re[k], IntR(N))],
              im |-> [k \in 1..N |-> Div(out.im[k], IntR(N))]]
        ELSE out

fftInPlace(re, im, inverse) ==
    LET N == Len(re)
        permuted == BitReversal([re |-> re, im |-> im], 1, 0, N)
        out == StageLoop(permuted, 2, N, inverse)
    IN  IF inverse
        THEN [re |-> [k \in 1..N |-> Div(out.re[k], IntR(N))],
              im |-> [k \in 1..N |-> Div(out.im[k], IntR(N))]]
        ELSE out

(***************************************************************************)
(* fft.js: fftReal, fftComplex.  magnitudes[i] = Math.sqrt(x) * scale is   *)
(* carried as its square x * scale^2 (magSq): the square root of x >= 0 is *)
(* the one non-negative number with that square.                           *)
(***************************************************************************)
\* an array read: undefined (here NaN) off the end or at a fractional index
Read(a, idx) ==
    IF IsInteger(idx) /\ idx[1] >= 0 /\ idx[1] < Len(a) THEN a[idx[1] + 1] ELSE NaN

\* (Math.sqrt(re*re + im*im) * scale)^2
MagSq(re, im, scale) ==
    IF IsNaN(re) \/ IsNaN(im) THEN NaN
    ELSE Mul(Add(Mul(re, re), Mul(im, im)), Mul(scale, scale))

\* the zero-padded copy of the input in a buffer of N entries
Padded(signal, N) == [k \in 1..N |-> IF k <= Len(signal) THEN signal[k] ELSE Zero]

\* the entries of new Float64Array(length) after
\* for (i = 0; i < bound; i++) out[i] = ...: the indices 0..Floor(length)-1,
\* a write past the end of a typed array being dropped
Indices(length) == 1..Floor(length)

\* mutant: the two-sided scale 1/N and all N bins
fftReal_twoSided(signal, sampleRate) ==
    LET N == nextPow2(Len(signal))
        out == fftInPlace(Padded(signal, N), NewFloat64Array(IntR(N)), FALSE)
        scale == Rat(1, N)
        mag(i) == MagSq(At(out.re, i), At(out.im, i), scale)
        freq(i) == Div(Mul(IntR(i), sampleRate), IntR(N))
    IN  [magSq |-> [k \in Indices(IntR(N)) |-> mag(k - 1)],
         frequencies |-> [k \in Indices(IntR(N)) |-> freq(k - 1)],
         N |-> N, re |-> out.re, im |-> out.im]

\* lines 22-32: the one-sided spectrum read from the transformed buffers
RealSpectrum(out, N, sampleRate) ==
    LET half == Rat(N, 2)
        scale == Rat(2, N)
        mag(i) == MagSq(At(out.re, i), At(out.im, i), scale)
        freq(i) == Div(Mul(IntR(i), sampleRate), IntR(N))
    IN  [magSq |-> [k \in Indices(half) |-> mag(k - 1)],
         frequencies |-> [k \in Indices(half) |-> freq(k - 1)],
         N |-> N, re |-> out.re, im |-> out.im]

fftReal(signal, sampleRate) ==
    LET N == nextPow2(Len(signal))
    IN  RealSpectrum(fftInPlace(Padded(signal, N), NewFloat64Array(IntR(N)), FALSE),
                     N, sampleRate)

\* x % n for a rational x >= 0 and an integer n > 0
ModR(x, n) == Sub(x, IntR(n * Floor(Div(x, IntR(n)))))

\* lines 50-61: the shifted spectrum read from the transformed buffers
ComplexSpectrum(out, N, sampleRate) ==
    LET scale == Rat(1, N)
        shifted(i) == ModR(Add(IntR(i), Rat(N, 2)), N)
        mag(i) == MagSq(Read(out.re, shifted(i)), Read(out.im, shifted(i)), scale)
        freq(i) == Div(Mul(Sub(IntR(i), Rat(N, 2)), sampleRate), IntR(N))
    IN  [magSq |-> [k \in Indices(IntR(N)) |-> mag(k - 1)],
         frequencies |-> [k \in Indices(IntR(N)) |-> freq(k - 1)],
         shifted |-> [k \in Indices(IntR(N)) |-> shifted(k - 1)],
         N |-> N, re |-> out.re, im |-> out.im]

fftComplex(I, Q, sampleRate) ==
    LET N == nextPow2(Len(I))
    IN  ComplexSpectrum(fftInPlace(Padded(I, N), Padded(Q, N), FALSE), N, sampleRate)

(***************************************************************************)
(* fft.js: toDb.  The JavaScript values that are not finite numbers:       *)
(* <<0, 0, 0>> is NaN, <<1, 0, 0>> is Infinity and <<-1, 0, 0>> -Infinity. *)
(***************************************************************************)
PosInf == <<1, 0, 0>>
NegInf == <<-1, 0, 0>>
IsFinite(x) == x[3] > 0

\* x > y, for x and y not NaN
Greater(x, y) ==
    IF x = y THEN FALSE
    ELSE IF x = PosInf \/ y = NegInf THEN TRUE
    ELSE IF x = NegInf \/ y = PosInf THEN FALSE
    ELSE Less(y, x)

\* Math.max(x, y)
MathMax(x, y) ==
    IF IsNaN(x) \/ IsNaN(y) THEN NaN
    ELSE IF Greater(y, x) THEN y ELSE x

\* Math.max(...a): -Infinity for an empty array
RECURSIVE MaxOfFirst(_, _)
MaxOfFirst(a, n) == IF n = 0 THEN NegInf ELSE MathMax(MaxOfFirst(a, n - 1), a[n])
MaxOf(a) == MaxOfFirst(a, Len(a))

\* x / y for finite x and y
Quotient(x, y) ==
    IF y = Zero
    THEN IF x = Zero THEN NaN ELSE IF Sgn(x) > 0 THEN PosInf ELSE NegInf
    ELSE Div(x, y)

\* log10 of a positive power of ten
RECURSIVE Log10Pow(_)
Log10Pow(x) ==
    IF x = One THEN 0
    ELSE IF Less(x, One) THEN Log10Pow(Mul(x, IntR(10))) - 1
    ELSE Log10Pow(Div(x, IntR(10))) + 1

\* 20 * Math.log10(x)
Db20(x) ==
    IF IsNaN(x) \/ x = NegInf THEN NaN
    ELSE IF x = PosInf THEN PosInf
    ELSE IF Sgn(x) < 0 THEN NaN
    ELSE IF x = Zero THEN NegInf
    ELSE IntR(20 * Log10Pow(x))

DefaultFloor == -80

\* mutant: Math.min in place of the clamping Math.max
toDb_minClamp(magnitudes, floor) ==
    LET max == MaxOf(magnitudes)
    IN  [k \in 1..Len(magnitudes) |->
            LET val == IF Greater(magnitudes[k], Zero)
                       THEN Db20(Quotient(magnitudes[k], max))
                       ELSE floor
            IN  IF IsNaN(val) THEN NaN ELSE IF Greater(val, floor) THEN floor ELSE val]

\* mutant: the guard magnitudes[i] >= 0 in place of > 0
toDb_geZero(magnitudes, floor) ==
    LET max == MaxOf(magnitudes)
    IN  [k \in 1..Len(magnitudes) |->
            LET val == IF ~Less(magnitudes[k], Zero)
                       THEN Db20(Quotient(magnitudes[k], max))
                       ELSE floor
            IN  MathMax(val, floor)]

toDb(magnitudes, floor) ==
    LET max == MaxOf(magnitudes)
    IN  [k \in 1..Len(magnitudes) |->
            LET val == IF Greater(magnitudes[k], Zero)
                       THEN Db20(Quotient(magnitudes[k], max))
                       ELSE floor
            IN  MathMax(val, floor)]

(***************************************************************************)
(* filter.js and filters.js: movingAverageLPF                              *)
(***************************************************************************)
Max2(a, b) == IF a > b THEN a ELSE b
Min2(a, b) == IF a < b THEN a ELSE b

\* for (j = lo; j <= hi; j++) sum += signal[j]
RECURSIVE SumRange(_, _, _)
SumRange(signal, lo, hi) ==
    IF hi < lo THEN Zero ELSE Add(SumRange(signal, lo, hi - 1), At(signal, hi))

\* sum / count, 0 / 0 being NaN
Mean(sum, count) == IF count = 0 THEN NaN ELSE Div(sum, IntR(count))

\* mutant: the divisor is the full window, 2*windowSize + 1
movingAverageLPF_fullWindow(signal, windowSize) ==
    [k \in 1..Len(signal) |->
        LET i == k - 1
            lo == Max2(0, i - windowSize)
            hi == Min2(Len(signal) - 1, i + windowSize)
        IN  Mean(SumRange(signal, lo, hi), 2 * windowSize + 1)]

\* filter.js: windowSize is the half-width of the window
movingAverageLPF(signal, windowSize) ==
    [k \in 1..Len(signal) |->
        LET i == k - 1
            lo == Max2(0, i - windowSize)
            hi == Min2(Len(signal) - 1, i + windowSize)
            count == IF hi < lo THEN 0 ELSE hi - lo + 1
        IN  Mean(SumRange(signal, lo, hi), count)]

\* mutant: the test idx > 0 in place of idx >= 0
RECURSIVE TapLoop_positive(_, _, _, _)
TapLoop_positive(signal, i, halfTaps, j) ==
    IF j < -halfTaps THEN [sum |-> Zero, count |-> 0]
    ELSE LET prev == TapLoop_positive(signal, i, halfTaps, j - 1)
             idx == i + j
         IN  IF idx > 0 /\ idx < Len(signal)
             THEN [sum |-> Add(prev.sum, At(signal, idx)), count |-> prev.count + 1]
             ELSE prev

\* filters.js, the loop for (j = -halfTaps; j <= halfTaps; j++) up to j:
\* the sum and the count of the samples signal[i + j] that exist
RECURSIVE TapLoop(_, _, _, _)
TapLoop(signal, i, halfTaps, j) ==
    IF j < -halfTaps THEN [sum |-> Zero, count |-> 0]
    ELSE LET prev == TapLoop(signal, i, halfTaps, j - 1)
             idx == i + j
         IN  IF idx >= 0 /\ idx < Len(signal)
             THEN [sum |-> Add(prev.sum, At(signal, idx)), count |-> prev.count + 1]
             ELSE prev

\* mutant: taps taken as the half-width of the window
filters_movingAverageLPF_halfWidth(signal, taps) == movingAverageLPF(signal, taps)

\* filters.js: the half-width is floor(taps / 2)
filters_movingAverageLPF(signal, taps) ==
    LET halfTaps == Floor(Rat(taps, 2))
    IN  [k \in 1..Len(signal) |->
            LET acc == TapLoop(signal, k - 1, halfTaps, halfTaps)
            IN  Mean(acc.sum, acc.count)]

\* App.jsx, imageDemo: the loop for (j = Math.max(0, i - windowSize);
\* j <= Math.min(arr.length - 1, i + windowSize); j++) from lo up to j
RECURSIVE LpfLoop(_, _, _)
LpfLoop(arr, lo, j) ==
    IF j < lo THEN [sum |-> Zero, count |-> 0]
    ELSE LET prev == LpfLoop(arr, lo, j - 1)
         IN  [sum |-> Add(prev.sum, At(arr, j)), count |-> prev.count + 1]

\* App.jsx, imageDemo: const lpf = (arr, windowSize = 40) => { ... }
lpf(arr, windowSize) ==
    [k \in 1..Len(arr) |->
        LET acc == LpfLoop(arr, Max2(0, (k - 1) - windowSize),
                           Min2(Len(arr) - 1, (k - 1) + windowSize))
        IN  Mean(acc.sum, acc.count)]

(***************************************************************************)
(* filter.js and filters.js: sincLPF.  The kernels hold Math.PI outside a  *)
(* sine or cosine: 2*Math.PI*fc at the centre tap of filter.js, a division *)
(* by Math.PI*n off the centre in filters.js.  A kernel value is the pair  *)
(* <<r, p>> of Q(sqrt 2) numbers, r + p*u, where u is pi in filter.js and  *)
(* 1/pi in filters.js; u is transcendental, so two pairs are equal numbers *)
(* exactly when their components are.  The normalised kernel and the       *)
(* output are quotients [num, den] of two pairs.                           *)
(***************************************************************************)
AddN(x, y) == IF IsNaN(x) \/ IsNaN(y) THEN NaN ELSE Add(x, y)
MulN(x, y) == IF IsNaN(x) \/ IsNaN(y) THEN NaN ELSE Mul(x, y)

PiZero == <<Zero, Zero>>
PiOne == <<One, Zero>>
PiNaN == <<NaN, NaN>>
PiIsNaN(x) == IsNaN(x[1]) \/ IsNaN(x[2])
PiAdd(x, y) == IF PiIsNaN(x) \/ PiIsNaN(y) THEN PiNaN ELSE <<Add(x[1], y[1]), Add(x[2], y[2])>>
\* a pair times a number of Q(sqrt 2)
PiScale(x, c) == IF PiIsNaN(x) \/ IsNaN(c) THEN PiNaN ELSE <<Mul(x[1], c), Mul(x[2], c)>>

\* Math.cos((2 * Math.PI * k * i) / (taps - 1)): 0 / 0 is NaN and so is its cosine
WindowCos(k, i, taps) == IF taps = 1 THEN NaN ELSE CosTwoPi(Rat(k * i, 2 * (taps - 1)))

\* 0.42 - 0.5 * cos(2*pi*i/(taps-1)) + 0.08 * cos(4*pi*i/(taps-1))
Blackman(i, taps) ==
    AddN(AddN(Rat(21, 50), MulN(Rat(-1, 2), WindowCos(2, i, taps))),
         MulN(Rat(2, 25), WindowCos(4, i, taps)))

\* 0.54 - 0.46 * cos(2*pi*i/(taps-1))
Hamming(i, taps) == AddN(Rat(27, 50), MulN(Rat(-23, 50), WindowCos(2, i, taps)))

\* mutant: the sine without its division by n
SincTap_noDivide(fc, n) ==
    IF n = 0 THEN <<Zero, Mul(IntR(2), fc)>>
    ELSE <<SinTwoPi(Mul(fc, IntR(n))), Zero>>

\* filter.js: 2*pi*fc at n = 0, sin(2*pi*fc*n)/n elsewhere (u = pi)
SincTap(fc, n) ==
    IF n = 0 THEN <<Zero, Mul(IntR(2), fc)>>
    ELSE <<Div(SinTwoPi(Mul(fc, IntR(n))), IntR(n)), Zero>>

\* filters.js: 2*fc at n = 0, sin(2*pi*fc*n)/(pi*n) elsewhere (u = 1/pi)
FiltersSincTap(fc, n) ==
    IF n = 0 THEN <<Mul(IntR(2), fc), Zero>>
    ELSE <<Zero, Div(SinTwoPi(Mul(fc, IntR(n))), IntR(n))>>

\* the sum of the first n entries of a sequence of pairs
RECURSIVE PiSum(_, _)
PiSum(a, n) == IF n = 0 THEN PiZero ELSE PiAdd(PiSum(a, n - 1), a[n])

\* kernel[i] /= sum for every i: the windowed taps over their sum
Normalized(windowed) == [num |-> windowed, den |-> PiSum(windowed, Len(windowed))]

\* filter.js, lines 37-56
BlackmanKernel(fc, taps) ==
    LET halfTaps == Floor(Rat(taps, 2))
    IN  Normalized([k \in 1..taps |->
            PiScale(SincTap(fc, (k - 1) - halfTaps), Blackman(k - 1, taps))])

\* filters.js, lines 41-61
HammingKernel(fc, taps) ==
    LET halfTaps == Floor(Rat(taps, 2))
    IN  Normalized([k \in 1..taps |->
            PiScale(FiltersSincTap(fc, (k - 1) - halfTaps), Hamming(k - 1, taps))])

\* a quotient num/den of two pairs; x / 0 and a NaN operand give NaN (the
\* kernels of the model have no non-zero value over a zero sum)
QNaN == [num |-> PiNaN, den |-> PiNaN]
Quot(num, den) ==
    IF PiIsNaN(num) \/ PiIsNaN(den) \/ den = PiZero THEN QNaN
    ELSE [num |-> num, den |-> den]
QIsNaN(x) == PiIsNaN(x.num)
\* kernel[j] after normalisation
KernelAt(kernel, j) == Quot(kernel.num[j + 1], kernel.den)

\* for (j = 0; j < taps; j++) { idx = i - halfTaps + j; if (0 <= idx < length)
\* val += signal[idx] * kernel[j] }: the numerator of val after the first n taps
RECURSIVE ConvolveLoop(_, _, _, _, _)
ConvolveLoop(signal, kernel, i, halfTaps, n) ==
    IF n = 0 THEN PiZero
    ELSE LET prev == ConvolveLoop(signal, kernel, i, halfTaps, n - 1)
             idx == i - halfTaps + (n - 1)
         IN  IF idx >= 0 /\ idx < Len(signal)
             THEN PiAdd(prev, PiScale(KernelAt(kernel, n - 1).num, At(signal, idx)))
             ELSE prev

\* whether one tap at least falls on a sample of the signal
TouchesSignal(n, i, halfTaps, taps) ==
    \E j \in 0..(taps - 1) : i - halfTaps + j >= 0 /\ i - halfTaps + j < n

Convolve(signal, kernel, taps) ==
    LET halfTaps == Floor(Rat(taps, 2))
    IN  [k \in 1..Len(signal) |->
            IF ~TouchesSignal(Len(signal), k - 1, halfTaps, taps)
            THEN [num |-> PiZero, den |-> PiOne]
            ELSE Quot(ConvolveLoop(signal, kernel, k - 1, halfTaps, taps), kernel.den)]

\* filter.js; the kernel is returned with the output for the claims to read
sincLPF(signal, cutoffFreq, sampleRate, taps) ==
    LET fc == Div(cutoffFreq, sampleRate)
        kernel == BlackmanKernel(fc, taps)
    IN  [out |-> Convolve(signal, kernel, taps), kernel |-> kernel]

\* filters.js
filters_sincLPF(signal, cutoffNormalized, taps) ==
    LET kernel == HammingKernel(cutoffNormalized, taps)
    IN  [out |-> Convolve(signal, kernel, taps), kernel |-> kernel]

(***************************************************************************)
(* real/App.jsx: the reconstructionSNR closure of the results memo.  The   *)
(* closure returns a string: '0.0', the infinity sign, or                  *)
(* (10 * Math.log10(ratio)).toFixed(1).  A result is the record of its     *)
(* text and, for a formatted number, of the ratio it was formatted from;   *)
(* a ratio of exactly 1 is 0 dB, which toFixed(1) prints as '0.0'.         *)
(***************************************************************************)
SnrMargin == 10

SnrZero == [text |-> "0.0", ratio |-> One]
SnrInfinite == [text |-> "inf", ratio |-> PosInf]
SnrNumber(ratio) == IF ratio = One THEN SnrZero ELSE [text |-> "dB", ratio |-> ratio]

\* sum of a[i] * b[i] for i = start .. end - 1
RECURSIVE DotLoop(_, _, _, _)
DotLoop(a, b, start, end) ==
    IF end <= start THEN Zero
    ELSE Add(DotLoop(a, b, start, end - 1), Mul(At(a, end - 1), At(b, end - 1)))

\* sum of (a[i] - sc * b[i])^2 for i = start .. end - 1
RECURSIVE ErrLoop(_, _, _, _, _)
ErrLoop(a, b, sc, start, end) ==
    IF end <= start THEN Zero
    ELSE LET err == Sub(At(a, end - 1), Mul(sc, At(b, end - 1)))
         IN  Add(ErrLoop(a, b, sc, start, end - 1), Mul(err, err))

\* mutant: no least-squares scale
SnrScale_one(dotProd, reconPow) == One

\* mutant: the projection without its division by the reconstructed power
SnrScale_undivided(dotProd, reconPow) ==
    IF Greater(reconPow, Zero) THEN dotProd ELSE One

\* sc = reconPow > 0 ? dotProd / reconPow : 1
SnrScale(dotProd, reconPow) ==
    IF Greater(reconPow, Zero) THEN Div(dotProd, reconPow) ELSE One

\* mutant: an empty range is let through
SnrEmpty_strict(start, end) == end < start

\* if (end <= start) return '0.0'
SnrEmpty(start, end) == end <= start

reconstructionSNR(inputSignal, reconstructed, filterTaps) ==
    LET delay == filterTaps \div 2
        start == delay + SnrMargin
        end == Len(inputSignal) - delay - SnrMargin
    IN  IF SnrEmpty(start, end) THEN SnrZero
        ELSE LET dotProd == DotLoop(inputSignal, reconstructed, start, end)
                 reconPow == DotLoop(reconstructed, reconstructed, start, end)
                 sc == SnrScale(dotProd, reconPow)
                 sigPow == DotLoop(inputSignal, inputSignal, start, end)
                 errPow == ErrLoop(inputSignal, reconstructed, sc, start, end)
             IN  IF Greater(errPow, Zero)
                 THEN SnrNumber(Quotient(sigPow, errPow))
                 ELSE SnrInfinite

(***************************************************************************)
(* real/App.jsx: the shared pipeline of the results memo (lines 116-162),  *)
(* run on the locals t, inputSignal, lCarrier, lSR and lFilterCutoff that  *)
(* the first part of the memo has set.  The filtered samples are used as   *)
(* numbers of Q(sqrt 2): the runs of the model use kernels whose only      *)
(* non-zero windowed tap is the centre one (3 Blackman taps), so that the  *)
(* normalised kernel is free of pi.  A spectrum is carried as the call     *)
(* that produces it (operation, buffers read, sample rate, dB floor); the  *)
(* transforms themselves are modelled above.                               *)
(***************************************************************************)
\* the double a quotient of pairs stands for, when it is in Q(sqrt 2)
QValue(q) ==
    IF QIsNaN(q) THEN NaN
    ELSE IF q.num = PiZero THEN Zero
    ELSE IF q.den[1] = Zero /\ q.num[1] = Zero THEN Div(q.num[2], q.den[2])
    ELSE IF q.den[2] = Zero /\ q.num[2] = Zero THEN Div(q.num[1], q.den[1])
    ELSE Undef

\* sincLPF of filter.js as the memo reads it: an array of doubles
FilteredBy(signal, cutoffFreq, sampleRate, taps) ==
    LET out == sincLPF(signal, cutoffFreq, sampleRate, taps).out
    IN  [k \in 1..Len(signal) |-> QValue(out[k])]

\* Box-Muller: z0 = sqrt(-2 ln u1) cos(2 pi u2), z1 = sqrt(-2 ln u1) sin(2 pi u2).
\* A draw is the pair of radius = sqrt(-2 ln u1), positive since 0 < u1 < 1,
\* and u2 in [0, 1).
BoxMullerZ0(draw) == Mul(draw.radius, CosTwoPi(draw.u2))
BoxMullerZ1(draw) == Mul(draw.radius, SinTwoPi(draw.u2))

\* mutant: the draw is added unscaled
AddNoise_unscaled(x, noisePower, z) == Add(x, z)

\* rawI[i] += noisePower * z0
AddNoise(x, noisePower, z) == Add(x, Mul(noisePower, z))

\* lines 118-127: the raw arrays after the noise loop has drawn draws[i] at i
NoisyRaw(raw, noisePower, draws) ==
    [I |-> [k \in 1..Len(raw.I) |-> AddNoise(raw.I[k], noisePower, BoxMullerZ0(draws[k]))],
     Q |-> [k \in 1..Len(raw.I) |-> AddNoise(raw.Q[k], noisePower, BoxMullerZ1(draws[k]))]]

\* fftReal / fftComplex followed by toDb(magnitudes) with the default floor
SpectrumCall(fn, re, im, sampleRate) ==
    [fn |-> fn, re |-> re, im |-> im, sampleRate |-> sampleRate, floor |-> DefaultFloor]

\* lines 134-141
Spectra(inputSignal, rawI, rawQ, filteredI, filteredQ, reconstructed, lSR) ==
    [inputSpectrum |-> SpectrumCall("fftReal", inputSignal, <<>>, lSR),
     rawIQSpectrum |-> SpectrumCall("fftComplex", rawI, rawQ, lSR),
     filteredIQSpectrum |-> SpectrumCall("fftComplex", filteredI, filteredQ, lSR),
     reconstructedSpectrum |-> SpectrumCall("fftReal", reconstructed, <<>>, lSR)]

\* the locals of a run that has made no step
NoSnr == [text |-> "", ratio |-> Zero]
NoLocals ==
    [rawI |-> <<>>, rawQ |-> <<>>, z0 |-> <<>>, z1 |-> <<>>, filteredI |-> <<>>,
     filteredQ |-> <<>>, reconstructed |-> <<>>, spectra |-> <<>>,
     reconstructionSNR |-> NoSnr]

(***************************************************************************)
(* The core on a heap.  heap is the sequence of the arrays allocated so    *)
(* far, an address being an index of it; held is the set of addresses the  *)
(* caller holds (its own arrays and the ones calls returned).  A call      *)
(* reads its argument arrays by address, allocates with new Float64Array,  *)
(* writes by address and returns addresses.  The modules of the core       *)
(* declare no variable besides the constant TWO_PI, so a call reads the    *)
(* heap at its arguments only.  A cell holds the data of an array and how  *)
(* the model carries it: doubles, squares (magnitudes) or quotients (a     *)
(* sinc kernel).                                                           *)
(***************************************************************************)
Cell(data, kind) == [data |-> <<>> \o data, kind |-> kind]

\* the value of an expression that is computed once
Only(S) == CHOOSE x \in S : TRUE

\* mutant: the new array comes with the contents of the last one allocated
Alloc_stale(h, len) ==
    Append(h, Cell([k \in 1..len |->
                       IF Len(h) > 0 /\ k <= Len(h[Len(h)].data)
                          /\ h[Len(h)].kind = "doubles"
                       THEN h[Len(h)].data[k] ELSE Zero], "doubles"))

\* new Float64Array(len): a new address, zero-filled
Alloc(h, len) == Append(h, Cell(NewFloat64Array(IntR(len)), "doubles"))

\* for (i = 0; i < a.length; i++) a[i] = values[i]
Store(h, addr, values, kind) == [h EXCEPT ![addr] = Cell(values, kind)]

\* for (i = 0; i < values.length; i++) a[i] = values[i]: the rest is kept
StoreFirst(h, addr, values) ==
    [h EXCEPT ![addr] =
        Cell([k \in 1..Len(h[addr].data) |->
                 IF k <= Len(values) THEN values[k] ELSE h[addr].data[k]], h[addr].kind)]

\* mutant: the result is written over the last array of its length
OnHeap_reused(h, values, kind) ==
    LET same == {a \in 1..Len(h) : Len(h[a].data) = Len(values)}
        addr == IF same = {} THEN Len(h) + 1
                ELSE CHOOSE a \in same : \A b \in same : b <= a
    IN  IF same = {}
        THEN [heap |-> Store(Alloc(h, Len(values)), addr, values, kind), out |-> addr]
        ELSE [heap |-> Store(h, addr, values, kind), out |-> addr]

\* const out = new Float64Array(n); ... every out[i] written ...; return out
OnHeap(h, values, kind) ==
    [heap |-> Store(Alloc(h, Len(values)), Len(h) + 1, values, kind), out |-> Len(h) + 1]

\* an operation that allocates and returns one array
Returning(h, values) ==
    LET r == OnHeap(h, values, "doubles")
    IN  [heap |-> r.heap, out |-> <<r.out>>, scratch |-> <<>>]

\* downconvert: I and Q are allocated one after the other
ReturningPair(h, iq) ==
    LET a == OnHeap(h, iq.I, "doubles")
        b == OnHeap(a.heap, iq.Q, "doubles")
    IN  [heap |-> b.heap, out |-> <<a.out, b.out>>, scratch |-> <<>>]

\* sincLPF: the kernel is allocated, filled and normalised in place, then
\* the output is allocated
ReturningFiltered(h, f) ==
    LET k == OnHeap(h, [j \in 1..Len(f.kernel.num) |-> KernelAt(f.kernel, j - 1)],
                    "quotients")
        r == OnHeap(k.heap, [j \in 1..Len(f.out) |-> QValue(f.out[j])], "doubles")
    IN  [heap |-> r.heap, out |-> <<r.out>>, scratch |-> <<k.out>>]

\* fftReal (part_001 13-33) and fftComplex (39-62): re and im are allocated
\* and the arguments are copied into their first entries,
FftCopied(h, name, refs, N) ==
    LET re == Len(h) + 1
        im == Len(h) + 2
        h1 == Alloc(Alloc(h, N), N)
    IN  IF name = "fftReal" THEN StoreFirst(h1, re, h[refs[1]].data)
        ELSE StoreFirst(StoreFirst(h1, re, h[refs[1]].data), im, h[refs[2]].data)

\* fftInPlace transforms the two buffers in place,
FftTransformed(h, re, im) ==
    Only({Store(Store(h, re, out.re, "doubles"), im, out.im, "doubles") :
             out \in {fftInPlace(h[re].data, h[im].data, FALSE)}})

\* magnitudes and frequencies are allocated, filled from re and im, returned
FftReturned(h, name, re, im, N, sampleRate) ==
    LET buffers == [re |-> h[re].data, im |-> h[im].data]
        spectrum == IF name = "fftReal" THEN RealSpectrum(buffers, N, sampleRate)
                    ELSE ComplexSpectrum(buffers, N, sampleRate)
        m == OnHeap(h, spectrum.magSq, "squares")
        f == OnHeap(m.heap, spectrum.frequencies, "doubles")
    IN  [heap |-> f.heap, out |-> <<m.out, f.out>>, scratch |-> <<re, im>>]

HeapFft(h, name, refs, sampleRate) ==
    LET N == nextPow2(Len(h[refs[1]].data))
        re == Len(h) + 1
        im == Len(h) + 2
    IN  Only({FftReturned(h3, name, re, im, N, sampleRate) :
                 h3 \in {FftTransformed(FftCopied(h, name, refs, N), re, im)}})

\* the call c = [name, refs, params] made on the heap h
Invoke(h, c) ==
    LET arg(i) == h[c.refs[i]].data
        p == c.params
    IN  CASE c.name = "generateTimeArray" ->
               Returning(h, generateTimeArray(p[1], p[2]).t)
          [] c.name = "generateSignal" ->
               Returning(h, generateSignal(p[1], arg(1),
                               Params(p[2], Undef, Undef, Undef, Undef, Undef)).signal)
          [] c.name = "downconvert" ->
               Only({ReturningPair(h, iq) : iq \in {downconvert(arg(1), arg(2), p[1])}})
          [] c.name = "upconvert" ->
               Returning(h, upconvert(arg(1), arg(2), arg(3), p[1]))
          [] c.name = "movingAverageLPF" ->
               Returning(h, movingAverageLPF(arg(1), p[1]))
          [] c.name = "filters.movingAverageLPF" ->
               Returning(h, filters_movingAverageLPF(arg(1), p[1]))
          [] c.name = "sincLPF" ->
               Only({ReturningFiltered(h, f) : f \in {sincLPF(arg(1), p[1], p[2], p[3])}})
          [] c.name = "filters.sincLPF" ->
               Only({ReturningFiltered(h, f) : f \in {filters_sincLPF(arg(1), p[1], p[2])}})
          [] c.name = "fftReal" -> HeapFft(h, "fftReal", c.refs, p[1])
          [] c.name = "fftComplex" -> HeapFft(h, "fftComplex", c.refs, p[1])
          [] c.name = "toDb" -> Returning(h, toDb(arg(1), p[1]))

(***************************************************************************)
(* real/App.jsx: the Real app.  Its state is the state of its hooks; the   *)
(* results memo is recomputed at every render.  A string is the sequence   *)
(* of its characters, so that startsWith, split, parseInt and the template *)
(* `real_${i}` are computed as JavaScript computes them.  The memo is      *)
(* carried as the calls it makes and the arguments it passes: the internal *)
(* carrier of a capture is a fifth of its sample rate, whose cosines are   *)
(* outside Q(sqrt 2).  The time base of a capture is computed.             *)
(***************************************************************************)
DigitChars == <<"0", "1", "2", "3", "4", "5", "6", "7", "8", "9">>
IsDigit(c) == \E d \in 1..10 : DigitChars[d] = c
DigitValue(c) == (CHOOSE d \in 1..10 : DigitChars[d] = c) - 1

\* String(i) of an array index i
RECURSIVE Digits(_)
Digits(i) ==
    IF i < 10 THEN <<DigitChars[i + 1]>>
    ELSE Append(Digits(i \div 10), DigitChars[(i % 10) + 1])

RealPrefix == <<"r", "e", "a", "l", "_">>
Tone == <<"t", "o", "n", "e">>
Am == <<"a", "m">>
Fm == <<"f", "m">>
UndefinedText == <<"u", "n", "d", "e", "f", "i", "n", "e", "d">>

\* the value of a capture's option: `real_${i}`
RealOption(i) == RealPrefix \o Digits(i)

\* String.prototype.startsWith
startsWith(s, prefix) == Len(s) >= Len(prefix) /\ SubSeq(s, 1, Len(prefix)) = prefix

\* String.prototype.split for a separator of one character
RECURSIVE split(_, _)
split(s, sep) ==
    IF \A k \in 1..Len(s) : s[k] # sep THEN <<s>>
    ELSE LET k == CHOOSE k \in 1..Len(s) : s[k] = sep /\ \A j \in 1..(k - 1) : s[j] # sep
         IN  <<SubSeq(s, 1, k - 1)>> \o split(SubSeq(s, k + 1, Len(s)), sep)

\* pieces[i] converted to a string by parseInt: undefined reads "undefined"
Piece(pieces, i) == IF i < Len(pieces) THEN pieces[i + 1] ELSE UndefinedText

RECURSIVE parseIntLoop(_, _, _)
parseIntLoop(s, k, acc) ==
    IF k > Len(s) \/ ~IsDigit(s[k]) THEN acc
    ELSE parseIntLoop(s, k + 1, 10 * acc + DigitValue(s[k]))

\* mutant: one digit is read
parseInt_oneDigit(s) ==
    IF s = <<>> \/ ~IsDigit(s[1]) THEN NaN ELSE IntR(DigitValue(s[1]))

\* parseInt of a string without leading blanks or sign: the leading digits
\* in base 10, NaN when there is none
parseInt(s) ==
    IF s = <<>> \/ ~IsDigit(s[1]) THEN NaN ELSE IntR(parseIntLoop(s, 1, 0))

\* the constants of the component (lines 57-73)
scaledCarrier == IntR(10000)
scaledSampleRate == IntR(50000)
memoDuration == Rat(1, 20)
fmDeviation == IntR(75000)
RealAmIndex == Rat(4, 5)

\* whether realCaptures[idx] is an element of the list
HasCapture(realCaptures, idx) ==
    IsInteger(idx) /\ idx[1] >= 0 /\ idx[1] < Len(realCaptures)

\* lCarrier = lSR / 5
CaptureCarrier(lSR) == Div(lSR, IntR(5))

\* t = new Float64Array(N); for (i = 0; i < N; i++) t[i] = i / lSR
CaptureTime(N, lSR) == [k \in 1..N |-> Div(IntR(k - 1), lSR)]

\* lines 116-162: the calls of the shared pipeline, with the arguments the
\* memo passes; the locals the calls pass on are named
SharedPipeline(t, lCarrier, lSR, lFilterCutoff, filterTaps, noisePower) ==
    << [fn |-> "downconvert", signal |-> "inputSignal", t |-> t, carrierFreq |-> lCarrier],
       [fn |-> "noise", I |-> "rawI", Q |-> "rawQ", noisePower |-> noisePower,
        applied |-> Greater(noisePower, Zero)],
       [fn |-> "sincLPF", signal |-> "rawI", cutoffFreq |-> lFilterCutoff,
        sampleRate |-> lSR, taps |-> filterTaps],
       [fn |-> "sincLPF", signal |-> "rawQ", cutoffFreq |-> lFilterCutoff,
        sampleRate |-> lSR, taps |-> filterTaps],
       [fn |-> "upconvert", I |-> "filteredI", Q |-> "filteredQ", t |-> t,
        carrierFreq |-> lCarrier],
       [fn |-> "fftReal", signal |-> "inputSignal", sampleRate |-> lSR],
       [fn |-> "fftComplex", I |-> "rawI", Q |-> "rawQ", sampleRate |-> lSR],
       [fn |-> "fftComplex", I |-> "filteredI", Q |-> "filteredQ", sampleRate |-> lSR],
       [fn |-> "fftReal", signal |-> "reconstructed", sampleRate |-> lSR],
       [fn |-> "reconstructionSNR", signal |-> "inputSignal",
        reconstructed |-> "reconstructed", taps |-> filterTaps] >>

\* reading a property of realCaptures[idx] when that is undefined
Thrown == [threw |-> TRUE]

\* lines 50-176: one render of the component in the state s of its hooks
results(s) ==
    LET isRealSignal == startsWith(s.signalType, RealPrefix)
    IN  IF isRealSignal /\ ~HasCapture(s.realCaptures, s.realSignalIdx) THEN Thrown
        ELSE
        LET capture == s.realCaptures[s.realSignalIdx[1] + 1]
            carrierFreqMHz == IF isRealSignal THEN capture.center_freq_mhz ELSE One
            carrierFreq == Mul(carrierFreqMHz, IntR(1000000))
            scaleFactor == Div(carrierFreq, scaledCarrier)
            scaledModFreq == Div(s.modulatingFreq, scaleFactor)
            scaledFilterCutoff == Div(Div(s.filterBW, scaleFactor), IntR(2))
            lSR == IF isRealSignal THEN capture.sample_rate ELSE scaledSampleRate
            lCarrier == IF isRealSignal THEN CaptureCarrier(lSR) ELSE scaledCarrier
            lScaleFactor ==
                IF isRealSignal
                THEN Div(Mul(capture.center_freq_mhz, IntR(1000000)), lCarrier)
                ELSE scaleFactor
            lFilterCutoff ==
                IF isRealSignal THEN Div(s.filterBW, IntR(2)) ELSE scaledFilterCutoff
            t == IF isRealSignal THEN CaptureTime(Len(capture.I), lSR)
                 ELSE [fn |-> "generateTimeArray", sampleRate |-> lSR, duration |-> memoDuration]
            fmIndex == Div(fmDeviation, s.modulatingFreq)
            inputSignal ==
                IF isRealSignal
                THEN [fn |-> "upconvert", I |-> capture.I, Q |-> capture.Q, t |-> t,
                      carrierFreq |-> lCarrier]
                ELSE IF s.signalType = Fm
                THEN [fn |-> "generateSignal", type |-> "fm", t |-> t,
                      carrierFreq |-> lCarrier, modulatingFreq |-> scaledModFreq,
                      modulationIndex |-> fmIndex]
                ELSE IF s.signalType = Am
                THEN [fn |-> "generateSignal", type |-> "am", t |-> t,
                      carrierFreq |-> lCarrier, modulatingFreq |-> scaledModFreq,
                      modulationIndex |-> RealAmIndex]
                ELSE [fn |-> "generateSignal", type |-> "cosine", t |-> t,
                      frequency |-> lCarrier, amplitude |-> One]
        IN  [threw |-> FALSE, isReal |-> isRealSignal, t |-> t, lSR |-> lSR,
             lCarrier |-> lCarrier, inputSignal |-> inputSignal,
             steps |-> SharedPipeline(t, lCarrier, lSR, lFilterCutoff, s.filterTaps,
                                      s.noisePower),
             scaleFactor |-> lScaleFactor,
             centerFreqMHz |-> carrierFreqMHz]

\* the state of the hooks at mount (lines 48-73)
Mounted(realCaptures) ==
    [realCaptures |-> realCaptures, signalType |-> Am, realSignalIdx |-> Zero,
     modulatingFreq |-> IntR(50000), filterBW |-> IntR(200000), filterTaps |-> 51,
     noisePower |-> Rat(1, 20)]

\* lines 233-239: the two setters are called in one event handler, React
\* applies them together and renders once
handleSignalChange(s, val) ==
    IF startsWith(val, RealPrefix)
    THEN [s EXCEPT !.realSignalIdx = parseInt(Piece(split(val, "_"), 1)),
                   !.signalType = val]
    ELSE [s EXCEPT !.signalType = val]

\* lines 264-269: the options of the select that can be chosen
SignalOptions(realCaptures) ==
    {Tone, Am} \cup {RealOption(i - 1) : i \in 1..Len(realCaptures)}

\* Number(text) for the text of a slider, a string of decimal digits; tap
\* counts are plain integers in the model
Number(text) == IF text = <<>> THEN 0 ELSE parseIntLoop(text, 1, 0)

\* mutant: the values of a slider whose steps are counted from 0
RangeValues_fromZero(min, max, step) ==
    {Digits(k * step) : k \in {j \in 0..(max \div step) : j * step >= min}}

\* e.target.value of <input type="range" min max step>: the browser keeps
\* the value on the steps counted from min, not above max
RangeValues(min, max, step) ==
    {Digits(min + k * step) : k \in 0..((max - min) \div step)}

\* the Filter Taps sliders (lines 378-389 and 505-516, the same attributes
\* and handler): min={11} max={501} step={10}
TapsMin == 11
TapsMax == 501
TapsStep == 10

\* onChange={(e) => setFilterTaps(Number(e.target.value))}
handleTapsChange(s, val) == [s EXCEPT !.filterTaps = Number(val)]

(***************************************************************************)
(* real/App.jsx 550-558 (part_003 543-552): the SNR badge.  The badge      *)
(* reads results.reconstructionSNR, a string: x.toFixed(1), '0.0' or the   *)
(* infinity sign, which is the one character InfinitySign here.            *)
(***************************************************************************)
InfinitySign == "inf"
Sentinel == <<InfinitySign>>

\* x.toFixed(1) for x >= 0 that rounds to tenths / 10
toFixed1(tenths) == Digits(tenths \div 10) \o <<".">> \o Digits(tenths % 10)

\* the number of decimal digits of s from position k on
RECURSIVE DigitRun(_, _)
DigitRun(s, k) == IF k > Len(s) \/ ~IsDigit(s[k]) THEN 0 ELSE 1 + DigitRun(s, k + 1)

\* parseFloat of an unsigned decimal literal at the start of s: digits, then
\* optionally a point and digits; NaN when s starts with neither
UnsignedFloat(s) ==
    LET ni == DigitRun(s, 1)
        nf == IF Len(s) > ni /\ s[ni + 1] = "." THEN DigitRun(s, ni + 2) ELSE 0
    IN  IF ni = 0 /\ nf = 0 THEN NaN
        ELSE Rat(parseIntLoop(s, 1, 0) * 10^nf + parseIntLoop(s, ni + 2, 0), 10^nf)

\* parseFloat of a string without leading blanks and without exponent
parseFloat(s) ==
    IF s # <<>> /\ s[1] = "-"
    THEN LET v == UnsignedFloat(Tail(s)) IN IF IsNaN(v) THEN NaN ELSE Neg(v)
    ELSE UnsignedFloat(s)

Green == "var(--accent-green)"
Orange == "#ea580c"
Red == "#dc2626"

\* x > y of two numbers, false when x is NaN
Exceeds(x, y) == ~IsNaN(x) /\ Greater(x, y)

\* color: parseFloat(snr) > 20 ? green : parseFloat(snr) > 10 ? orange : red
badgeColor(snr) ==
    IF Exceeds(parseFloat(snr), IntR(20)) THEN Green
    ELSE IF Exceeds(parseFloat(snr), IntR(10)) THEN Orange
    ELSE Red

(***************************************************************************)
(* part_003: the Real app without captures.  Its hooks at mount (lines     *)
(* 46-70) and its results memo (lines 74-171), which runs the steps of the *)
(* shared pipeline on the scaled carrier and sample rate.                  *)
(***************************************************************************)
Mounted003 ==
    [signalType |-> Fm, carrierFreqMHz |-> IntR(100), modulatingFreq |-> IntR(15000),
     filterBW |-> IntR(100000), filterTaps |-> 21, noisePower |-> Rat(1, 20)]

results003(s) ==
    LET carrierFreq == Mul(s.carrierFreqMHz, IntR(1000000))
        scaleFactor == Div(carrierFreq, scaledCarrier)
        scaledModFreq == Div(s.modulatingFreq, scaleFactor)
        scaledFilterCutoff == Div(Div(s.filterBW, scaleFactor), IntR(2))
        t == [fn |-> "generateTimeArray", sampleRate |-> scaledSampleRate,
              duration |-> memoDuration]
        fmIndex == Div(fmDeviation, s.modulatingFreq)
        inputSignal ==
            IF s.signalType = Fm
            THEN [fn |-> "generateSignal", type |-> "fm", t |-> t,
                  carrierFreq |-> scaledCarrier, modulatingFreq |-> scaledModFreq,
                  modulationIndex |-> Div(fmIndex, scaleFactor)]
            ELSE IF s.signalType = Am
            THEN [fn |-> "generateSignal", type |-> "am", t |-> t,
                  carrierFreq |-> scaledCarrier, modulatingFreq |-> scaledModFreq,
                  modulationIndex |-> RealAmIndex]
            ELSE [fn |-> "generateSignal", type |-> "cosine", t |-> t,
                  frequency |-> scaledCarrier, amplitude |-> One]
    IN  [threw |-> FALSE, t |-> t, inputSignal |-> inputSignal,
         steps |-> SharedPipeline(t, scaledCarrier, scaledSampleRate, scaledFilterCutoff,
                                  s.filterTaps, s.noisePower),
         scaleFactor |-> scaleFactor]

(***************************************************************************)
(* Inputs of the calls.                                                    *)
(***************************************************************************)
SampleRates == {Rat(n, d) : n \in (-2)..MaxRateNum, d \in 1..2}
Durations == {Rat(n, d) : n \in (-2)..MaxDurNum, d \in 1..3}

\* sample rates at which every integer frequency lands on the eighth-turn grid
GridRates == {IntR(1), IntR(2), IntR(4), IntR(8)}
TimeBases == {generateTimeArray(sr, Div(IntR(n), sr)).t : sr \in GridRates, n \in 0..MaxLen}
Freqs == {IntR(f) : f \in 0..MaxFreq}
Amps == {IntR(a) : a \in 1..MaxAmp}
SampleValues == {IntR(-1), Zero, One, IntR(2), HalfSqrt2}
Signals(n) == [1..n -> SampleValues]
Is(n) == [1..n -> {IntR(-1), Zero, One}]
Qs(n) == [1..n -> {Zero, One}]
\* the Simple app's frequency sliders start at 1
AppFreqs == {IntR(f) : f \in 1..MaxFreq}
UnknownTypes == {"triangle", "noise", ""}

\* inputs of the spectral analyzer: every 0/1 signal up to MaxFFTLen samples,
\* and the bin-aligned cosines of 4 and of 8 samples
FFTRates == {IntR(8), Rat(3, 2)}
Bits(n) == [1..n -> {Zero, One}]
CosineSignal(N, k, A) ==
    generateSignal("cosine", generateTimeArray(IntR(N), One).t,
                   Params(IntR(k), IntR(A), Undef, Undef, Undef, Undef)).signal
SineSignal(N, k, A) ==
    generateSignal("sine", generateTimeArray(IntR(N), One).t,
                   Params(IntR(k), IntR(A), Undef, Undef, Undef, Undef)).signal
Tones == {<<N, k, A>> \in {4, 8} \X (0..7) \X (1..MaxAmp) : k < N}
RealInputs ==
    UNION {Bits(n) : n \in 0..MaxFFTLen}
    \cup {CosineSignal(tone[1], tone[2], tone[3]) : tone \in Tones}
ComplexInputs ==
    UNION {[I : Bits(n), Q : Bits(n)] : n \in 0..MaxIQLen}
    \cup {[I |-> CosineSignal(tone[1], tone[2], tone[3]),
           Q |-> SineSignal(tone[1], tone[2], tone[3])] : tone \in Tones}

\* inputs of toDb: zero, a negative value and powers of ten over five decades
MagValues == {IntR(-1), Zero, Rat(1, 1000), Rat(1, 10), One, IntR(100)}
Floors == {IntR(DefaultFloor), IntR(-40), Zero, IntR(20)}

\* inputs of nextPow2: the short lengths and the lengths around 2^30
Lengths == (0..MaxShortLen) \cup {Two30 - 1, Two30, Two30 + 1, (Two30 - 1) + Two30}

ParamObjects ==
    {Params(f, a, Undef, Undef, Undef, Undef) : f \in Freqs, a \in Amps \cup {Undef}}
    \cup {Params(Undef, Undef, fc, fm, m, Undef) :
             fc \in Freqs, fm \in Freqs, m \in {Undef, Rat(1, 2), One}}
    \cup {Params(Undef, Undef, fc, Undef, Undef, fe) : fc \in Freqs, fe \in Freqs}
    \cup {Params(Undef, Undef, Undef, Undef, Undef, Undef), NoParams}

(***************************************************************************)
(* App.jsx (Simple): the results memo.  The app's state is the selected    *)
(* signal type and its sliders; the fixed time base (2000 Hz, 0.3 s) is    *)
(* scaled down to the grid rates and MaxLen samples.                       *)
(***************************************************************************)
fmIndex == 4
amIndex == 1
amplitude == 1

isSimple(type) == type \in {"sine", "cosine", "square", "sawtooth"}

mixerFreq(signalType, frequency, carrierFreq, startFreq) ==
    IF isSimple(signalType) THEN frequency
    ELSE IF signalType = "chirp" THEN startFreq
    ELSE carrierFreq

signalParams(signalType, frequency, carrierFreq, modulatingFreq, startFreq, chirpEndFreq) ==
    IF isSimple(signalType)
    THEN Params(frequency, IntR(amplitude), Undef, Undef, Undef, Undef)
    ELSE IF signalType = "chirp"
    THEN Params(Undef, Undef, startFreq, Undef, Undef, chirpEndFreq)
    ELSE IF signalType = "am"
    THEN Params(Undef, Undef, carrierFreq, modulatingFreq, IntR(amIndex), Undef)
    ELSE Params(Undef, Undef, carrierFreq, modulatingFreq, IntR(fmIndex), Undef)

SimpleAppResults(signalType, params, mixer, sampleRate, duration) ==
    LET t == generateTimeArray(sampleRate, duration).t
        inputSignal == generateSignal(signalType, t, params).signal
        raw == downconvert(inputSignal, t, mixer)
        reconstructed == upconvert(raw.I, raw.Q, t, mixer)
    IN  [t |-> t, inputSignal |-> inputSignal, rawI |-> raw.I, rawQ |-> raw.Q,
         reconstructed |-> reconstructed]

(***************************************************************************)
(* The state machine.  An initial state is a call about to run: op names   *)
(* the operation and args holds its arguments; the operation's action runs *)
(* the whole call and leaves its result in ret.                            *)
(***************************************************************************)
NoLoop ==
    /\ p2_n = 0
    /\ p2_p = 0
    /\ p2_pc = "idle"
    /\ p2_iter = 0

\* no array is held: the call's arguments are values
NoHeap ==
    /\ heap = <<>>
    /\ held = {}
    /\ log = <<>>

\* no application is mounted
NoApp == app = <<>>

Call(name, argSet) ==
    /\ op = name
    /\ args \in argSet
    /\ ret = <<>>
    /\ pc = "call"
    /\ NoLoop
    /\ NoHeap
    /\ NoApp

Return(value) ==
    /\ pc = "call"
    /\ pc' = "done"
    /\ ret' = value
    /\ UNCHANGED <<op, args, p2Vars, heapVars, app>>

Returned(name) == op = name /\ pc = "done"

TimeArrayArgs == [sampleRate : SampleRates, duration : Durations]

GenerateSignalArgs ==
    {a \in [type : KnownTypes \cup UnknownTypes, t : TimeBases, params : ParamObjects] :
        InTable(a.type, a.t, a.params)}

DownconvertArgs ==
    UNION {[signal : Signals(Len(t)), t : {t}, carrierFreq : Freqs] : t \in TimeBases}

UpconvertArgs ==
    UNION {[I : Is(Len(t)), Q : Qs(Len(t)), t : {t}, carrierFreq : Freqs] :
              t \in TimeBases}

CallGenerateTimeArray ==
    /\ op = "generateTimeArray"
    /\ Return(generateTimeArray(args.sampleRate, args.duration))

CallGenerateSignal ==
    /\ op = "generateSignal"
    /\ Return(generateSignal(args.type, args.t, args.params))

CallDownconvert ==
    /\ op = "downconvert"
    /\ Return(downconvert(args.signal, args.t, args.carrierFreq))

CallUpconvert ==
    /\ op = "upconvert"
    /\ Return(upconvert(args.I, args.Q, args.t, args.carrierFreq))

FFTRealArgs == [signal : RealInputs, sampleRate : FFTRates]

FFTComplexArgs ==
    {[I |-> iq.I, Q |-> iq.Q, sampleRate |-> sr] : iq \in ComplexInputs, sr \in FFTRates}

\* spectra, as fftReal and fftComplex return them (no negative entry), and
\* the sequences with a negative entry
SpectrumDbArgs ==
    UNION {[magnitudes : [1..n -> MagValues \ {IntR(-1)}], floor : Floors] :
              n \in 0..MaxDbLen}
SignedDbArgs ==
    {a \in UNION {[magnitudes : [1..n -> MagValues], floor : Floors] : n \in 1..MaxDbLen} :
        \E k \in 1..Len(a.magnitudes) : a.magnitudes[k] = IntR(-1)}

CallFftReal ==
    /\ op = "fftReal"
    /\ Return(fftReal(args.signal, args.sampleRate))

CallFftComplex ==
    /\ op = "fftComplex"
    /\ Return(fftComplex(args.I, args.Q, args.sampleRate))

CallToDb ==
    /\ op = "toDb"
    /\ Return(toDb(args.magnitudes, args.floor))

\* nextPow2 step by step: p2_n is n, p2_p is p, p2_iter counts the iterations
\* of `while (p < n) p <<= 1`
InitPow2 ==
    /\ op = "nextPow2"
    /\ args \in [n : Lengths]
    /\ ret = <<>>
    /\ pc = "call"
    /\ p2_n = args.n
    /\ p2_p = 1
    /\ p2_pc = "loop"
    /\ p2_iter = 0
    /\ NoHeap
    /\ NoApp

NextPow2Iterate ==
    /\ p2_pc = "loop"
    /\ p2_p < p2_n
    /\ p2_iter < IterCap
    /\ p2_p' = Shl32(p2_p)
    /\ p2_iter' = p2_iter + 1
    /\ UNCHANGED <<callVars, p2_n, p2_pc, heapVars, app>>

NextPow2Return ==
    /\ p2_pc = "loop"
    /\ ~(p2_p < p2_n)
    /\ p2_pc' = "done"
    /\ pc' = "done"
    /\ ret' = <<p2_p>>
    /\ UNCHANGED <<op, args, p2_n, p2_p, p2_iter, heapVars, app>>

SimpleResultsArgs ==
    {a \in [signalType : KnownTypes, sampleRate : GridRates, samples : 0..MaxLen,
            frequency : AppFreqs, carrierFreq : AppFreqs, modulatingFreq : AppFreqs,
            startFreq : AppFreqs, chirpEndFreq : AppFreqs] :
        /\ InTable(a.signalType,
                   generateTimeArray(a.sampleRate, Div(IntR(a.samples), a.sampleRate)).t,
                   signalParams(a.signalType, a.frequency, a.carrierFreq,
                                a.modulatingFreq, a.startFreq, a.chirpEndFreq))
        \* a slider the selected type does not read stays at its lowest value
        /\ isSimple(a.signalType) =>
              a.carrierFreq = IntR(1) /\ a.modulatingFreq = IntR(1)
              /\ a.startFreq = IntR(1) /\ a.chirpEndFreq = IntR(1)
        /\ a.signalType \in {"am", "fm"} =>
              a.frequency = IntR(1) /\ a.startFreq = IntR(1) /\ a.chirpEndFreq = IntR(1)
        /\ a.signalType = "chirp" =>
              a.frequency = IntR(1) /\ a.carrierFreq = IntR(1) /\ a.modulatingFreq = IntR(1)}

SimpleResults ==
    /\ op = "SimpleResults"
    /\ Return(SimpleAppResults(
           args.signalType,
           signalParams(args.signalType, args.frequency, args.carrierFreq,
                        args.modulatingFreq, args.startFreq, args.chirpEndFreq),
           mixerFreq(args.signalType, args.frequency, args.carrierFreq, args.startFreq),
           args.sampleRate, Div(IntR(args.samples), args.sampleRate)))

InitTime == Call("generateTimeArray", TimeArrayArgs)
SpecTime == InitTime /\ [][CallGenerateTimeArray]_vars

InitGen == Call("generateSignal", GenerateSignalArgs)
SpecGen == InitGen /\ [][CallGenerateSignal]_vars

InitMixer ==
    \/ Call("downconvert", DownconvertArgs)
    \/ Call("upconvert", UpconvertArgs)
    \/ Call("SimpleResults", SimpleResultsArgs)
NextMixer == CallDownconvert \/ CallUpconvert \/ SimpleResults
SpecMixer == InitMixer /\ [][NextMixer]_vars

InitFFT ==
    \/ Call("fftReal", FFTRealArgs)
    \/ Call("fftComplex", FFTComplexArgs)
NextFFT == CallFftReal \/ CallFftComplex
SpecFFT == InitFFT /\ [][NextFFT]_vars

InitDb == Call("toDb", SpectrumDbArgs) \/ Call("toDb", SignedDbArgs)
SpecDb == InitDb /\ [][CallToDb]_vars

NextPow2 == NextPow2Iterate \/ NextPow2Return
SpecPow2 == InitPow2 /\ [][NextPow2]_vars

\* the low-pass filters
FilterSignals == UNION {[1..n -> SampleValues] : n \in 0..MaxFilterLen}
MovingAverageArgs == [signal : FilterSignals, windowSize : 0..MaxWindow]
FiltersMovingAverageArgs == [signal : FilterSignals, taps : 0..(2 * MaxWindow + 1)]

CallMovingAverageLPF ==
    /\ op = "movingAverageLPF"
    /\ Return(movingAverageLPF(args.signal, args.windowSize))

CallFiltersMovingAverageLPF ==
    /\ op = "filters.movingAverageLPF"
    /\ Return(filters_movingAverageLPF(args.signal, args.taps))

LpfArgs == [arr : FilterSignals, windowSize : 0..MaxWindow]

CallLpf ==
    /\ op = "lpf"
    /\ Return(lpf(args.arr, args.windowSize))

InitAverage ==
    \/ Call("movingAverageLPF", MovingAverageArgs)
    \/ Call("filters.movingAverageLPF", FiltersMovingAverageArgs)
    \/ Call("lpf", LpfArgs)
NextAverage == CallMovingAverageLPF \/ CallFiltersMovingAverageLPF \/ CallLpf
SpecAverage == InitAverage /\ [][NextAverage]_vars

\* inputs of the sinc filters.  Tap counts whose window angles i/(taps-1) fall
\* on the eighth-turn grid, and cutoffs fc in (0, 0.5) on it.  The Blackman
\* window of 2 taps is left out: its two values are 0.42 - 0.5 + 0.08, exactly
\* 0 in the reals and a rounding residue in doubles.
SincTaps == {1, 2, 3, 5, 9}
SincCutoffs == {Rat(1, 8), Rat(1, 4), Rat(3, 8)}
SincRate == 8
SincValues == {IntR(-1), Zero, One, HalfSqrt2}
SincSignals ==
    UNION {[1..n -> SincValues] : n \in 0..MaxFilterLen}
    \cup {[k \in 1..n |-> c] : n \in 1..MaxConstLen, c \in {One, IntR(2), HalfSqrt2}}
SincArgs ==
    [signal : SincSignals, cutoffFreq : {IntR(1), IntR(2), IntR(3)},
     sampleRate : {IntR(SincRate)}, taps : SincTaps \ {2}]
FiltersSincArgs == [signal : SincSignals, cutoffNormalized : SincCutoffs, taps : SincTaps]

CallSincLPF ==
    /\ op = "sincLPF"
    /\ Return(sincLPF(args.signal, args.cutoffFreq, args.sampleRate, args.taps))

CallFiltersSincLPF ==
    /\ op = "filters.sincLPF"
    /\ Return(filters_sincLPF(args.signal, args.cutoffNormalized, args.taps))

InitSinc ==
    \/ Call("sincLPF", SincArgs)
    \/ Call("filters.sincLPF", FiltersSincArgs)
NextSinc == CallSincLPF \/ CallFiltersSincLPF
SpecSinc == InitSinc /\ [][NextSinc]_vars

\* inputs of the SNR estimate: signal pairs of one length, 2 * SnrMargin
\* samples and up to MaxSnrSpan more, every sample of the middle drawn from
\* SnrValues and the SnrMargin samples at each end equal to one value
SnrValues == {IntR(-1), Zero, IntR(2)}
SnrLengths == {0, 2 * SnrMargin - 1} \cup (2 * SnrMargin)..(2 * SnrMargin + MaxSnrSpan)
SnrSignals(length) ==
    {[k \in 1..length |->
         IF k > SnrMargin /\ k <= length - SnrMargin THEN mid[k - SnrMargin] ELSE edge] :
        mid \in [1..Max2(0, length - 2 * SnrMargin) -> SnrValues], edge \in {Zero, One}}
SnrTaps == {1, 2, 3}
SnrArgs ==
    UNION {[inputSignal : SnrSignals(n), reconstructed : SnrSignals(n), filterTaps : SnrTaps] :
              n \in SnrLengths}

CallReconstructionSNR ==
    /\ op = "reconstructionSNR"
    /\ Return(reconstructionSNR(args.inputSignal, args.reconstructed, args.filterTaps))

InitSNR == Call("reconstructionSNR", SnrArgs)
SpecSNR == InitSNR /\ [][CallReconstructionSNR]_vars

\* the shared pipeline of the Real app, one action per step of the memo.
\* pc names the last step made.  The rates are scaled to the eighth-turn
\* grid; the signals are long enough for a non-empty SNR range.
PipelineLengths == {2 * SnrMargin + 4, 2 * SnrMargin + 6}
PipelineRates == {IntR(8)}
PipelineCarriers == {IntR(2)}
PipelineTaps == {3}
NoisePowers == {Zero, Rat(1, 2)}
PipelineSignals(t, carrier) ==
    {generateSignal("cosine", t, Params(carrier, One, Undef, Undef, Undef, Undef)).signal,
     generateSignal("am", t, Params(Undef, Undef, carrier, carrier, RealAmIndex, Undef)).signal}
PipelineArgs ==
    UNION {[inputSignal : PipelineSignals(generateTimeArray(sr, Div(IntR(n), sr)).t, fc),
            t : {generateTimeArray(sr, Div(IntR(n), sr)).t},
            lCarrier : {fc}, lSR : {sr}, lFilterCutoff : {IntR(1), IntR(2)},
            filterTaps : PipelineTaps, noisePower : NoisePowers] :
              n \in PipelineLengths, sr \in PipelineRates, fc \in PipelineCarriers}

\* the draws of a run: Math.random is called twice for each sample; the
\* model draws one of the sequences that repeat after DrawPeriod samples
Draws == [radius : {One, IntR(2)}, u2 : {Zero, Rat(1, 4), Rat(1, 2), Rat(3, 4)}]
DrawSequences(n) ==
    {[k \in 1..n |-> p[((k - 1) % DrawPeriod) + 1]] : p \in [1..DrawPeriod -> Draws]}

Step(from, to, locals) ==
    /\ op = "pipeline"
    /\ pc = from
    /\ pc' = to
    /\ ret' = locals
    /\ UNCHANGED <<op, args, p2Vars, heapVars, app>>

DownconvertStep ==
    LET raw == downconvert(args.inputSignal, args.t, args.lCarrier)
    IN  Step("call", "downconvert", [NoLocals EXCEPT !.rawI = raw.I, !.rawQ = raw.Q])

NoiseStep ==
    /\ pc = "downconvert"
    /\ IF Greater(args.noisePower, Zero)
       THEN \E draws \in DrawSequences(Len(ret.rawI)) :
               LET noisy == NoisyRaw([I |-> ret.rawI, Q |-> ret.rawQ], args.noisePower, draws)
               IN  Step("downconvert", "noise",
                        [ret EXCEPT !.rawI = noisy.I, !.rawQ = noisy.Q,
                                    !.z0 = [k \in 1..Len(draws) |-> BoxMullerZ0(draws[k])],
                                    !.z1 = [k \in 1..Len(draws) |-> BoxMullerZ1(draws[k])]])
       ELSE Step("downconvert", "noise", ret)

FilterStep ==
    Step("noise", "filter",
         [ret EXCEPT
             !.filteredI = FilteredBy(ret.rawI, args.lFilterCutoff, args.lSR, args.filterTaps),
             !.filteredQ = FilteredBy(ret.rawQ, args.lFilterCutoff, args.lSR, args.filterTaps)])

UpconvertStep ==
    Step("filter", "upconvert",
         [ret EXCEPT !.reconstructed =
             upconvert(ret.filteredI, ret.filteredQ, args.t, args.lCarrier)])

SpectraStep ==
    Step("upconvert", "spectra",
         [ret EXCEPT !.spectra =
             Spectra(args.inputSignal, ret.rawI, ret.rawQ, ret.filteredI, ret.filteredQ,
                     ret.reconstructed, args.lSR)])

SnrStep ==
    Step("spectra", "done",
         [ret EXCEPT !.reconstructionSNR =
             reconstructionSNR(args.inputSignal, ret.reconstructed, args.filterTaps)])

InitPipeline == Call("pipeline", PipelineArgs)
NextPipeline ==
    \/ DownconvertStep
    \/ NoiseStep
    \/ FilterStep
    \/ UpconvertStep
    \/ SpectraStep
    \/ SnrStep
SpecPipeline == InitPipeline /\ [][NextPipeline]_vars

\* a session of calls of the core on a heap: the caller holds a time base and
\* a signal and makes up to MaxCalls calls, on arrays it holds
HeapRate == IntR(4)
HeapTimeBases == {generateTimeArray(HeapRate, Rat(n, 4)).t : n \in 1..3}
HeapSignals ==
    {<<One, Zero, IntR(-1)>>, <<One, Rat(1, 10), Zero>>}
InitialHeaps ==
    {<<Cell(generateTimeArray(HeapRate, Rat(3, 4)).t, "doubles"), Cell(s, "doubles")>> :
        s \in HeapSignals}

CallOf(name, refs, params) == [name |-> name, refs |-> refs, params |-> params]

HeapOps ==
    {"generateTimeArray", "generateSignal", "downconvert", "upconvert",
     "movingAverageLPF", "filters.movingAverageLPF", "sincLPF", "filters.sincLPF",
     "fftReal", "fftComplex", "toDb"}

\* the calls of the operation name the model makes on the heap h from the
\* addresses H
HeapCalls(name, h, H) ==
    LET U == {a \in H : h[a].kind = "doubles" /\ Len(h[a].data) > 0
                        /\ \A k \in 1..Len(h[a].data) : IsFinite(h[a].data[k])}
        T == {a \in U : h[a].data \in HeapTimeBases}
        P == {q \in U \X U : q[2] = q[1] \/ q[2] = q[1] + 1}
        D == {a \in U : \A k \in 1..Len(h[a].data) :
                           h[a].data[k] \in {Zero, Rat(1, 100), Rat(1, 10), One}}
    IN  CASE name = "generateTimeArray" ->
               {CallOf(name, <<>>, <<HeapRate, Rat(n, 4)>>) : n \in 2..3}
          [] name = "generateSignal" ->
               {CallOf(name, <<t>>, <<"cosine", IntR(1)>>) : t \in T}
          [] name = "downconvert" ->
               {CallOf(name, <<s, t>>, <<IntR(1)>>) : s \in U, t \in T}
          [] name = "upconvert" ->
               {CallOf(name, <<q[1], q[2], t>>, <<IntR(1)>>) : q \in P, t \in T}
          [] name = "movingAverageLPF" -> {CallOf(name, <<s>>, <<1>>) : s \in U}
          [] name = "filters.movingAverageLPF" -> {CallOf(name, <<s>>, <<3>>) : s \in U}
          [] name = "sincLPF" -> {CallOf(name, <<s>>, <<IntR(1), HeapRate, 3>>) : s \in U}
          [] name = "filters.sincLPF" -> {CallOf(name, <<s>>, <<Rat(1, 2), 3>>) : s \in U}
          [] name = "fftReal" -> {CallOf(name, <<s>>, <<HeapRate>>) : s \in U}
          [] name = "fftComplex" -> {CallOf(name, q, <<HeapRate>>) : q \in P}
          [] name = "toDb" -> {CallOf(name, <<m>>, <<IntR(DefaultFloor)>>) : m \in D}

\* the arguments agree in length where the operation indexes one by another
WellFormed(h, c) ==
    \A i \in 1..Len(c.refs) : Len(h[c.refs[i]].data) = Len(h[c.refs[1]].data)

InitHeap ==
    /\ op = "session"
    /\ args = <<>>
    /\ ret = <<>>
    /\ pc = "idle"
    /\ NoLoop
    /\ NoApp
    /\ heap \in InitialHeaps
    /\ held = {1, 2}
    /\ log = <<>>

HeapCall ==
    /\ op = "session"
    /\ Len(log) < MaxCalls
    /\ \E name \in HeapOps :
       \E c \in {x \in HeapCalls(name, heap, held) : WellFormed(heap, x)} :
          \E r \in {Invoke(heap, c)} :
              /\ heap' = r.heap
              /\ held' = held \cup {r.out[i] : i \in 1..Len(r.out)}
              /\ log' = Append(log,
                     [name |-> c.name, params |-> c.params, refs |-> c.refs,
                      in |-> [i \in 1..Len(c.refs) |-> heap[c.refs[i]].data],
                      out |-> [i \in 1..Len(r.out) |-> r.heap[r.out[i]].data],
                      outRefs |-> r.out, scratch |-> r.scratch])
    /\ UNCHANGED <<op, args, ret, pc, p2Vars, app>>

SpecHeap == InitHeap /\ [][HeapCall]_vars

\* the Real app: the captures of data/fm_captures.json are objects
\* {I, Q, sample_rate, center_freq_mhz, label}; the app is mounted and the
\* signal type is chosen any number of times
CaptureA ==
    [I |-> <<One, Zero>>, Q |-> <<Zero, One>>, sample_rate |-> IntR(2048000),
     center_freq_mhz |-> Rat(1001, 10), label |-> "A"]
CaptureB ==
    [I |-> <<One, Zero, IntR(-1)>>, Q |-> <<Zero, One, Zero>>,
     sample_rate |-> IntR(250000), center_freq_mhz |-> IntR(100), label |-> "B"]
RealCaptureLists ==
    UNION {[1..n -> {CaptureA, CaptureB}] : n \in 0..MaxCaptureList}
    \cup {[k \in 1..MaxCaptures |-> IF k % 2 = 1 THEN CaptureA ELSE CaptureB]}

\* the hooks and the memo of the render that follows
Rendered(s) == [hooks |-> s, results |-> results(s)]

InitApp ==
    /\ op = "realApp"
    /\ args = <<>>
    /\ ret = <<>>
    /\ pc = "rendered"
    /\ NoLoop
    /\ NoHeap
    /\ app \in {Rendered(Mounted(c)) : c \in RealCaptureLists}

SignalChange ==
    /\ op = "realApp"
    /\ ~app.results.threw
    /\ \E val \in SignalOptions(app.hooks.realCaptures) :
          app' = Rendered(handleSignalChange(app.hooks, val))
    /\ UNCHANGED <<callVars, p2Vars, heapVars>>

\* part_003 mounted and rendered
Rendered003(s) == [hooks |-> s, results |-> results003(s)]

InitApp003 ==
    /\ op = "realApp003"
    /\ args = <<>>
    /\ ret = <<>>
    /\ pc = "rendered"
    /\ NoLoop
    /\ NoHeap
    /\ app = Rendered003(Mounted003)

\* a Filter Taps slider is moved, in either app, and the app renders
TapsChange ==
    /\ op \in {"realApp", "realApp003"}
    /\ ~app.results.threw
    /\ \E val \in RangeValues(TapsMin, TapsMax, TapsStep) :
          app' = IF op = "realApp"
                 THEN Rendered(handleTapsChange(app.hooks, val))
                 ELSE Rendered003(handleTapsChange(app.hooks, val))
    /\ UNCHANGED <<callVars, p2Vars, heapVars>>

NextApp == SignalChange \/ TapsChange
InitApps == InitApp \/ InitApp003
SpecApp == InitApps /\ [][NextApp]_vars

(***************************************************************************)
(* The chirp of the Simple app, sample by sample: App.jsx makes the time   *)
(* base generateTimeArray(2000, 0.3) and calls generateSignal('chirp', t,  *)
(* {carrierFreq: startFreq, chirpEndFreq}) with startFreq 5 and            *)
(* chirpEndFreq 150.  ret.i counts the iterations of the loop done,        *)
(* ret.turns is the phase of sample i - 1 in turns, the argument of        *)
(* Math.cos divided by TWO_PI.                                             *)
(***************************************************************************)
ChirpScenario ==
    [carrierFreq |-> IntR(5), chirpEndFreq |-> IntR(150),
     sampleRate |-> IntR(2000), duration |-> Rat(3, 10)]

InitChirp == Call("chirp", {ChirpScenario})

\* const t = generateTimeArray(sampleRate, duration); then lines 106-108
ChirpEnter ==
    /\ op = "chirp"
    /\ pc = "call"
    /\ \E t \in {generateTimeArray(args.sampleRate, args.duration).t} :
          ret' = [t |-> t,
                  rate |-> ChirpRate(args.carrierFreq, args.chirpEndFreq, t),
                  i |-> 0, turns |-> Zero]
    /\ pc' = "loop"
    /\ UNCHANGED <<op, args, p2Vars, heapVars, app>>

\* one iteration of for (let i = 0; i < t.length; i++)
ChirpIterate ==
    /\ op = "chirp"
    /\ pc = "loop"
    /\ ret.i < Len(ret.t)
    /\ ret' = [ret EXCEPT !.i = @ + 1,
                          !.turns = ChirpTurns(args.carrierFreq, args.chirpEndFreq,
                                               ret.t, ret.i + 1)]
    /\ UNCHANGED <<op, args, pc, p2Vars, heapVars, app>>

\* i = t.length: the loop ends
ChirpBreak ==
    /\ op = "chirp"
    /\ pc = "loop"
    /\ ret.i = Len(ret.t)
    /\ pc' = "done"
    /\ UNCHANGED <<op, args, ret, p2Vars, heapVars, app>>

NextChirp == ChirpEnter \/ ChirpIterate \/ ChirpBreak
SpecChirp == InitChirp /\ [][NextChirp]_vars

(***************************************************************************)
(* fftInPlace, loop iteration by loop iteration.  ret holds the two        *)
(* buffers and the loop variables: i, j of the bit-reversal loop; len, the *)
(* twiddle step w, the block start bi, the butterfly index bj and the      *)
(* running twiddle cur of the Cooley-Tukey loops.  Three histories record  *)
(* what was done: swaps, the index pairs <<i, j>> swapped; stages, the len *)
(* of every stage begun; flies, <<len, a, b>> for every butterfly.         *)
(***************************************************************************)
StepLengths == {N \in 1..(MaxFFTLen + 1) : \E e \in 0..3 : N = 2^e}

StepBuffers(N) ==
    {[re |-> [k \in 1..N |-> IntR(k)], im |-> [k \in 1..N |-> IntR(10 * k)]],
     [re |-> [k \in 1..N |-> IntR(k * k)], im |-> [k \in 1..N |-> IntR(-k)]],
     [re |-> [k \in 1..N |-> IntR(3 - k)], im |-> [k \in 1..N |-> Rat(k, 2)]]}

FftInPlaceArgs ==
    {[re |-> b.re, im |-> b.im, inverse |-> inv] :
        b \in UNION {StepBuffers(N) : N \in StepLengths}, inv \in BOOLEAN}

InitSteps == Call("fftInPlace", FftInPlaceArgs)

\* const N = re.length; let i = 1, j = 0
FftEnter ==
    /\ op = "fftInPlace"
    /\ pc = "call"
    /\ ret' = [re |-> args.re, im |-> args.im, i |-> 1, j |-> 0,
               len |-> 0, w |-> [re |-> One, im |-> Zero], bi |-> 0, bj |-> 0,
               cur |-> [re |-> One, im |-> Zero],
               swaps |-> <<>>, stages |-> <<>>, flies |-> <<>>]
    /\ pc' = "reverse"
    /\ UNCHANGED <<op, args, p2Vars, heapVars, app>>

\* one iteration of the bit-reversal loop
ReverseIterate ==
    /\ op = "fftInPlace"
    /\ pc = "reverse"
    /\ ret.i < Len(args.re)
    /\ \E jn \in {NextReversed(ret.j, Len(args.re) \div 2)} :
          ret' = IF ret.i < jn
                 THEN [ret EXCEPT !.re = SwapAt(ret.re, ret.i, jn),
                                  !.im = SwapAt(ret.im, ret.i, jn),
                                  !.i = ret.i + 1, !.j = jn,
                                  !.swaps = Append(ret.swaps, <<ret.i, jn>>)]
                 ELSE [ret EXCEPT !.i = ret.i + 1, !.j = jn]
    /\ UNCHANGED <<op, args, pc, p2Vars, heapVars, app>>

\* i = N: the bit-reversal loop ends; let len = 2
ReverseExit ==
    /\ op = "fftInPlace"
    /\ pc = "reverse"
    /\ ret.i >= Len(args.re)
    /\ ret' = [ret EXCEPT !.len = 2]
    /\ pc' = "stage"
    /\ UNCHANGED <<op, args, p2Vars, heapVars, app>>

\* len <= N: a stage begins with its angle, wRe, wIm; let i = 0
StageBegin ==
    /\ op = "fftInPlace"
    /\ pc = "stage"
    /\ ret.len <= Len(args.re)
    /\ ret' = [ret EXCEPT !.w = Twiddle(ret.len, args.inverse), !.bi = 0,
                          !.stages = Append(ret.stages, ret.len)]
    /\ pc' = "block"
    /\ UNCHANGED <<op, args, p2Vars, heapVars, app>>

\* i < N: a block begins; let curRe = 1, curIm = 0, j = 0
BlockBegin ==
    /\ op = "fftInPlace"
    /\ pc = "block"
    /\ ret.bi < Len(args.re)
    /\ ret' = [ret EXCEPT !.cur = [re |-> One, im |-> Zero], !.bj = 0]
    /\ pc' = "fly"
    /\ UNCHANGED <<op, args, p2Vars, heapVars, app>>

\* j < len / 2: one butterfly, then the twiddle advances
ButterflyStep ==
    /\ op = "fftInPlace"
    /\ pc = "fly"
    /\ 2 * ret.bj < ret.len
    /\ \E pair \in {ButterflyPair(ret.bi, ret.bj, ret.len)} :
       \E out \in {Butterfly([re |-> ret.re, im |-> ret.im], pair.a, pair.b, ret.cur)} :
          ret' = [ret EXCEPT
                    !.re = out.re, !.im = out.im, !.bj = ret.bj + 1,
                    !.cur = [re |-> Sub(Mul(ret.cur.re, ret.w.re), Mul(ret.cur.im, ret.w.im)),
                             im |-> Add(Mul(ret.cur.re, ret.w.im), Mul(ret.cur.im, ret.w.re))],
                    !.flies = Append(ret.flies, <<ret.len, pair.a, pair.b>>)]
    /\ UNCHANGED <<op, args, pc, p2Vars, heapVars, app>>

\* j = len / 2: the block is done; i += len
BlockEnd ==
    /\ op = "fftInPlace"
    /\ pc = "fly"
    /\ 2 * ret.bj >= ret.len
    /\ ret' = [ret EXCEPT !.bi = ret.bi + ret.len]
    /\ pc' = "block"
    /\ UNCHANGED <<op, args, p2Vars, heapVars, app>>

\* i >= N: the stage is done; len <<= 1
StageEnd ==
    /\ op = "fftInPlace"
    /\ pc = "block"
    /\ ret.bi >= Len(args.re)
    /\ ret' = [ret EXCEPT !.len = Shl32(ret.len)]
    /\ pc' = "stage"
    /\ UNCHANGED <<op, args, p2Vars, heapVars, app>>

\* len > N: the stages are over; a forward transform returns
ForwardReturn ==
    /\ op = "fftInPlace"
    /\ pc = "stage"
    /\ ret.len > Len(args.re)
    /\ ~args.inverse
    /\ pc' = "done"
    /\ UNCHANGED <<op, args, ret, p2Vars, heapVars, app>>

\* len > N: the stages are over; an inverse transform divides by N and returns
InverseReturn ==
    /\ op = "fftInPlace"
    /\ pc = "stage"
    /\ ret.len > Len(args.re)
    /\ args.inverse
    /\ ret' = [ret EXCEPT !.re = [k \in 1..Len(args.re) |-> Div(ret.re[k], IntR(Len(args.re)))],
                          !.im = [k \in 1..Len(args.re) |-> Div(ret.im[k], IntR(Len(args.re)))]]
    /\ pc' = "done"
    /\ UNCHANGED <<op, args, p2Vars, heapVars, app>>

NextSteps ==
    \/ FftEnter
    \/ ReverseIterate
    \/ ReverseExit
    \/ StageBegin
    \/ BlockBegin
    \/ ButterflyStep
    \/ BlockEnd
    \/ StageEnd
    \/ ForwardReturn
    \/ InverseReturn
SpecSteps == InitSteps /\ [][NextSteps]_vars

\* the badge rendered for every string the SNR estimate can report: the
\* tenths of a dB from '0.0' up to MaxBadgeTenths and the infinity sign
BadgeArgs ==
    [reconstructionSNR : {toFixed1(tenths) : tenths \in 0..MaxBadgeTenths} \cup {Sentinel}]

RenderBadge ==
    /\ op = "badge"
    /\ Return([value |-> parseFloat(args.reconstructionSNR),
               color |-> badgeColor(args.reconstructionSNR)])

InitBadge == Call("badge", BadgeArgs)
SpecBadge == InitBadge /\ [][RenderBadge]_vars

Init ==
    InitTime \/ InitGen \/ InitMixer \/ InitFFT \/ InitDb \/ InitPow2 \/ InitAverage
    \/ InitSinc \/ InitSNR \/ InitPipeline \/ InitHeap \/ InitApp \/ InitApp003 \/ InitChirp
    \/ InitBadge
    \/ InitSteps
Next ==
    \/ CallGenerateTimeArray
    \/ CallGenerateSignal
    \/ CallDownconvert
    \/ CallUpconvert
    \/ SimpleResults
    \/ CallFftReal
    \/ CallFftComplex
    \/ CallToDb
    \/ NextPow2Iterate
    \/ NextPow2Return
    \/ CallMovingAverageLPF
    \/ CallFiltersMovingAverageLPF
    \/ CallLpf
    \/ CallSincLPF
    \/ CallFiltersSincLPF
    \/ CallReconstructionSNR
    \/ NextPipeline
    \/ HeapCall
    \/ SignalChange
    \/ TapsChange
    \/ NextChirp
    \/ NextSteps
    \/ RenderBadge
Spec == Init /\ [][Next]_vars

(***************************************************************************)
(* Claims.                                                                 *)
(***************************************************************************)

\* the returned time base has floor(sampleRate*duration) samples,
\* t[i] = i/sampleRate, t[0] = 0, spacing 1/sampleRate, strictly increasing
IsTimeBase(t, sampleRate, duration) ==
    LET prod == Mul(sampleRate, duration)
        n == Len(t)
    IN  /\ Leq(IntR(n), prod)
        /\ Less(prod, IntR(n + 1))
        /\ \A i \in 0..(n - 1) : Mul(At(t, i), sampleRate) = IntR(i)
        /\ n > 0 => At(t, 0) = Zero
        /\ \A i \in 0..(n - 2) :
              /\ Mul(Sub(At(t, i + 1), At(t, i)), sampleRate) = One
              /\ Less(At(t, i), At(t, i + 1))

\* C1 as stated: for all sampleRate and duration, generateTimeArray returns
\* exactly floor(sampleRate*duration) samples, t[i] = i/sampleRate: t[0] = 0,
\* uniform spacing 1/sampleRate, strictly increasing.
C1_TimeArrayAsStated ==
    Returned("generateTimeArray") =>
        /\ ~ret.raised
        /\ IsTimeBase(ret.t, args.sampleRate, args.duration)

\* C1 amended: for every sampleRate >= 0 and duration >= 0 generateTimeArray
\* returns exactly floor(sampleRate*duration) samples, t[i] = i/sampleRate,
\* strictly increasing; with sampleRate*duration < 0 the call raises.
C1_TimeArray ==
    Returned("generateTimeArray") =>
        /\ (Sgn(args.sampleRate) >= 0 /\ Sgn(args.duration) >= 0) =>
              /\ ~ret.raised
              /\ IsTimeBase(ret.t, args.sampleRate, args.duration)
        /\ Sgn(Mul(args.sampleRate, args.duration)) < 0 => ret.raised

C1_Witness ==
    /\ Returned("generateTimeArray")
    /\ ~ret.raised
    /\ Len(ret.t) >= 3
    /\ ~IsInteger(args.sampleRate)
    /\ ~IsInteger(Mul(args.sampleRate, args.duration))

\* C2: downconvert returns I and Q of signal.length entries with
\* I[i] = signal[i]*cos(2*pi*fc*t[i]) and Q[i] = signal[i]*(-sin(2*pi*fc*t[i]));
\* output index i depends only on signal[i], t[i] and fc: changing any other
\* sample of signal or of t leaves I[i] and Q[i] unchanged.
C2_Downconvert ==
    Returned("downconvert") =>
        LET signal == args.signal
            t == args.t
            fc == args.carrierFreq
            n == Len(signal)
        IN  /\ Len(ret.I) = n
            /\ Len(ret.Q) = n
            /\ \A i \in 0..(n - 1) :
                  /\ At(ret.I, i) = Mul(At(signal, i), CosTwoPi(Mul(fc, At(t, i))))
                  /\ Add(At(ret.Q, i), Mul(At(signal, i), SinTwoPi(Mul(fc, At(t, i))))) = Zero
                  /\ \A j \in (0..(n - 1)) \ {i} :
                        /\ \A v \in SampleValues :
                              LET other == downconvert([signal EXCEPT ![j + 1] = v], t, fc)
                              IN  At(other.I, i) = At(ret.I, i) /\ At(other.Q, i) = At(ret.Q, i)
                        /\ \A u \in {IntR(0), Rat(1, 8), Rat(3, 4)} :
                              LET other == downconvert(signal, [t EXCEPT ![j + 1] = u], fc)
                              IN  At(other.I, i) = At(ret.I, i) /\ At(other.Q, i) = At(ret.Q, i)

C2_Witness ==
    /\ Returned("downconvert")
    /\ Len(args.signal) >= 3
    /\ \E i \in 0..(Len(args.signal) - 1) :
          /\ At(ret.I, i) = Rat(1, 2)
          /\ At(ret.Q, i) = Rat(-1, 2)

\* C3: without filtering or noise, upconvert(downconvert(signal, t, fc), t, fc)
\* equals signal at every index, for a pure sinusoid at frequency fc (the
\* Simple app's results for the sine and cosine types) and, by the same
\* identity I*cos - Q*sin = signal*(cos^2 + sin^2), for every signal.
C3_RoundTrip ==
    /\ Returned("SimpleResults") => ret.reconstructed = ret.inputSignal
    /\ Returned("downconvert") =>
          upconvert(ret.I, ret.Q, args.t, args.carrierFreq) = args.signal

C3_Witness ==
    /\ Returned("SimpleResults")
    /\ args.signalType = "sine"
    /\ Len(ret.t) >= 3
    /\ \E i \in 0..(Len(ret.t) - 1) :
          /\ At(ret.inputSignal, i) = HalfSqrt2
          /\ At(ret.rawI, i) = Rat(1, 2)
          /\ At(ret.rawQ, i) = Rat(-1, 2)
          /\ At(ret.reconstructed, i) = HalfSqrt2

\* C4: generateSignal with a type that is none of the seven families returns,
\* without raising, a signal of length t.length whose every sample is 0, for
\* any params value, an absent params object included.
C4_UnknownType ==
    (Returned("generateSignal") /\ args.type \notin KnownTypes) =>
        /\ ~ret.raised
        /\ Len(ret.signal) = Len(args.t)
        /\ \A i \in 0..(Len(args.t) - 1) : At(ret.signal, i) = Zero

C4_Witness ==
    /\ Returned("generateSignal")
    /\ args.type \notin KnownTypes
    /\ ~args.params.obj
    /\ Len(args.t) >= 2
    /\ ~ret.raised
(***************************************************************************)
(* The discrete Fourier transform by its definition, the reference of the  *)
(* spectral claims: X[m] = sum over n of x[n] * exp(-2*pi*j*m*n/N).        *)
(***************************************************************************)
RECURSIVE DftPartial(_, _, _, _, _)
DftPartial(re, im, m, N, n) ==
    IF n = 0 THEN [re |-> Zero, im |-> Zero]
    ELSE LET prev == DftPartial(re, im, m, N, n - 1)
             c == CosTwoPi(Rat(m * (n - 1), N))
             s == SinTwoPi(Rat(m * (n - 1), N))
         IN  [re |-> Add(prev.re, Add(Mul(re[n], c), Mul(im[n], s))),
              im |-> Add(prev.im, Sub(Mul(im[n], c), Mul(re[n], s)))]

Dft(re, im, m) == DftPartial(re, im, m, Len(re), Len(re))
\* |X[m]|^2
DftPower(re, im, m) ==
    LET X == Dft(re, im, m) IN Add(Mul(X.re, X.re), Mul(X.im, X.im))

RECURSIVE IsPow2(_)
IsPow2(p) == p = 1 \/ (p > 1 /\ p % 2 = 0 /\ IsPow2(p \div 2))
SmallestPow2AtLeast(p, n) == IsPow2(p) /\ p >= n /\ (p = 1 \/ p \div 2 < n)

\* C5: for every input length n >= 0 the loop of nextPow2 terminates and
\* returns the smallest power of two >= n.  Termination is stated on finite
\* runs: a 32-bit p doubled from 1 has left the loop after at most WordBits
\* iterations.
C5_NextPow2 ==
    /\ p2_pc = "done" => SmallestPow2AtLeast(p2_p, p2_n)
    /\ p2_iter <= WordBits

\* C5, on the lengths up to 2^30, where it holds.
C5_NextPow2UpTo2Pow30 ==
    p2_n <= Two30 =>
        /\ p2_pc = "done" => SmallestPow2AtLeast(p2_p, p2_n)
        /\ p2_iter <= WordBits

\* C6: fftComplex returns exactly N bins for every padded length N, N = 1
\* included; bin i reads source index (i + N/2) mod N, an integer in 0..N-1;
\* the map is a bijection on 0..N-1; bin i has frequency (i - N/2)*sampleRate/N;
\* the source DC bin 0 lands at output bin N/2 with frequency 0.
C6_FftComplex ==
    Returned("fftComplex") =>
        LET N == ret.N
            re == Padded(args.I, N)
            im == Padded(args.Q, N)
        IN  /\ SmallestPow2AtLeast(N, Len(args.I))
            /\ Len(ret.magSq) = N
            /\ Len(ret.frequencies) = N
            /\ \A i \in 0..(N - 1) :
                  /\ IsInteger(At(ret.shifted, i))
                  /\ At(ret.shifted, i)[1] \in 0..(N - 1)
                  /\ (2 * At(ret.shifted, i)[1]) % (2 * N) = (2 * i + N) % (2 * N)
                  /\ At(ret.magSq, i) =
                        Div(DftPower(re, im, At(ret.shifted, i)[1]), IntR(N * N))
                  /\ Mul(At(ret.frequencies, i), IntR(2 * N)) =
                        Mul(IntR(2 * i - N), args.sampleRate)
            /\ {At(ret.shifted, i)[1] : i \in 0..(N - 1)} = 0..(N - 1)
            /\ \E i \in 0..(N - 1) :
                  /\ 2 * i = N
                  /\ At(ret.shifted, i) = Zero
                  /\ At(ret.frequencies, i) = Zero

\* C6, on the padded lengths N >= 2, where it holds.
C6_FftComplexFromTwo == (Returned("fftComplex") /\ ret.N >= 2) => C6_FftComplex

\* C7: fftReal returns magnitudes and frequencies of equal length N/2 (N the
\* padded length; no bin for N = 1), the first N/2 bins of the transform, with
\* frequencies[i] = i*sampleRate/N (non-negative, strictly increasing, below
\* sampleRate/2) and magnitudes[i] = |X[i]|*2/N >= 0.
C7_FftReal ==
    Returned("fftReal") =>
        LET N == ret.N
            half == N \div 2
            re == Padded(args.signal, N)
            im == [k \in 1..N |-> Zero]
        IN  /\ SmallestPow2AtLeast(N, Len(args.signal))
            /\ N >= 2 => 2 * half = N
            /\ Len(ret.magSq) = half
            /\ Len(ret.frequencies) = half
            /\ \A i \in 0..(half - 1) :
                  /\ Mul(At(ret.frequencies, i), IntR(N)) = Mul(IntR(i), args.sampleRate)
                  /\ Sgn(At(ret.frequencies, i)) >= 0
                  /\ i > 0 => Less(At(ret.frequencies, i - 1), At(ret.frequencies, i))
                  /\ Less(Mul(IntR(2), At(ret.frequencies, i)), args.sampleRate)
                  /\ IsFinite(At(ret.magSq, i))
                  /\ Sgn(At(ret.magSq, i)) >= 0
                  /\ Mul(At(ret.magSq, i), IntR(N * N)) =
                        Mul(IntR(4), DftPower(re, im, i))

C7_Witness ==
    /\ Returned("fftReal")
    /\ Len(args.signal) = 5
    /\ ret.N = 8
    /\ Len(ret.magSq) = 4
    /\ At(ret.magSq, 1)[2] # 0
    /\ ~IsInteger(At(ret.frequencies, 3))

\* C8: the forward transform equals the DFT for every power-of-two N, so
\* fftReal of a cosine of amplitude A, of length exactly N, at the bin-aligned
\* frequency k*sampleRate/N with 0 < k < N/2 returns magnitude A at bin k and
\* zero at every other returned bin.
C8_ForwardIsDft ==
    /\ Returned("fftReal") =>
          LET N == ret.N
              re == Padded(args.signal, N)
              im == [k \in 1..N |-> Zero]
          IN  /\ \A m \in 0..(N - 1) :
                    At(ret.re, m) = Dft(re, im, m).re /\ At(ret.im, m) = Dft(re, im, m).im
              /\ \A tone \in Tones :
                    (/\ 0 < tone[2]
                     /\ 2 * tone[2] < tone[1]
                     /\ args.signal = CosineSignal(tone[1], tone[2], tone[3])) =>
                        \A i \in 0..(tone[1] \div 2 - 1) :
                            At(ret.magSq, i) =
                                IF i = tone[2] THEN IntR(tone[3] * tone[3]) ELSE Zero
    /\ Returned("fftComplex") =>
          LET N == ret.N
              re == Padded(args.I, N)
              im == Padded(args.Q, N)
          IN  \A m \in 0..(N - 1) :
                  At(ret.re, m) = Dft(re, im, m).re /\ At(ret.im, m) = Dft(re, im, m).im

C8_Witness ==
    /\ Returned("fftReal")
    /\ args.signal = CosineSignal(8, 3, 2)
    /\ ret.N = 8
    /\ At(ret.magSq, 3) = IntR(4)
    /\ At(ret.magSq, 1) = Zero

\* entry i is a maximum of the sequence
IsMaxEntry(a, i) == \A j \in 0..(Len(a) - 1) : ~Greater(At(a, j), At(a, i))

\* C9 as stated: every entry equal to the maximum of the sequence maps to
\* exactly 0 dB, and every entry equal to 0 maps to exactly floor.
C9_ToDbAsStated ==
    Returned("toDb") =>
        \A i \in 0..(Len(args.magnitudes) - 1) :
            /\ IsMaxEntry(args.magnitudes, i) => At(ret, i) = Zero
            /\ At(args.magnitudes, i) = Zero => At(ret, i) = args.floor

\* C9 amended: for a floor <= 0, every entry equal to the maximum of the
\* sequence maps to exactly 0 dB when that maximum is positive, and every
\* entry equal to 0 maps to exactly floor.
C9_ToDb ==
    (Returned("toDb") /\ Leq(args.floor, Zero)) =>
        \A i \in 0..(Len(args.magnitudes) - 1) :
            /\ (IsMaxEntry(args.magnitudes, i) /\ Greater(At(args.magnitudes, i), Zero)) =>
                  At(ret, i) = Zero
            /\ At(args.magnitudes, i) = Zero => At(ret, i) = args.floor

C9_Witness ==
    /\ Returned("toDb")
    /\ args.floor = IntR(DefaultFloor)
    /\ Len(args.magnitudes) = 3
    /\ At(args.magnitudes, 0) = Zero
    /\ At(args.magnitudes, 1) = IntR(100)
    /\ At(args.magnitudes, 2) = Rat(1, 10)
    /\ ret = <<IntR(DefaultFloor), Zero, IntR(-60)>>

\* C10: for every magnitude sequence (all-zero, with negative entries, empty)
\* toDb returns a sequence of the same length whose every entry is a number
\* >= floor, never -Infinity or NaN; zero and negative magnitudes map to floor.
C10_ToDbTotal ==
    Returned("toDb") =>
        /\ Len(ret) = Len(args.magnitudes)
        /\ \A i \in 0..(Len(args.magnitudes) - 1) :
              /\ IsFinite(At(ret, i))
              /\ Leq(args.floor, At(ret, i))
              /\ ~Greater(At(args.magnitudes, i), Zero) => At(ret, i) = args.floor

C10_Witness ==
    /\ Returned("toDb")
    /\ Len(args.magnitudes) = 3
    /\ \A i \in 0..2 : At(args.magnitudes, i) \in {Zero, IntR(-1)}
    /\ At(args.magnitudes, 0) = Zero
    /\ At(args.magnitudes, 2) = IntR(-1)
    /\ ret = <<args.floor, args.floor, args.floor>>

\* the sum of signal[j] over the indices j of the set S
RECURSIVE SumIn(_, _)
SumIn(signal, S) ==
    IF S = {} THEN Zero
    ELSE LET j == CHOOSE x \in S : TRUE
         IN  Add(At(signal, j), SumIn(signal, S \ {j}))

\* out is the mean of signal[j] over the indices j of
\* [i - halfWindow, i + halfWindow] that lie in 0..length-1
IsClippedMean(out, signal, i, halfWindow) ==
    LET inRange == {j \in (i - halfWindow)..(i + halfWindow) : j >= 0 /\ j < Len(signal)}
    IN  /\ inRange # {}
        /\ ~IsNaN(out)
        /\ Mul(out, IntR(Cardinality(inRange))) = SumIn(signal, inRange)

IsConstant(signal) == \A k \in 1..Len(signal) : signal[k] = signal[1]

PiCross(x, y) ==
    <<Mul(x[1], y[1]), Add(Mul(x[1], y[2]), Mul(x[2], y[1])), Mul(x[2], y[2])>>
\* two quotients are the same number (NaN equals nothing)
QEq(x, y) ==
    /\ ~QIsNaN(x)
    /\ ~QIsNaN(y)
    /\ PiCross(x.num, y.den) = PiCross(y.num, x.den)
QConst(c) == [num |-> <<c, Zero>>, den |-> PiOne]

\* the taps j of 0..taps-1 whose input index i - halfTaps + j lies in 0..length-1
InRangeTaps(i, length, taps) ==
    {j \in 0..(taps - 1) : i - (taps \div 2) + j >= 0 /\ i - (taps \div 2) + j < length}

\* the sum over the taps j of J of weight(j) * kernel[j], kernel normalised
RECURSIVE WeightedTaps(_, _, _, _, _)
WeightedTaps(kernel, signal, i, halfTaps, J) ==
    IF J = {} THEN PiZero
    ELSE LET j == CHOOSE x \in J : TRUE
         IN  PiAdd(PiScale(kernel.num[j + 1], At(signal, i - halfTaps + j)),
                   WeightedTaps(kernel, signal, i, halfTaps, J \ {j}))

\* the statement of C12 for one call: signal, taps, the returned out and kernel
SincAsStated(signal, taps, out, kernel) ==
    LET length == Len(signal)
        halfTaps == taps \div 2
    IN  /\ Len(out) = length
        /\ \A i \in 0..(length - 1) :
              LET J == InRangeTaps(i, length, taps)
                  sum == Quot(WeightedTaps(kernel, signal, i, halfTaps, J), kernel.den)
              IN  /\ QEq(At(out, i), sum)
                  /\ (IsConstant(signal) /\ taps % 2 = 1) =>
                        IF halfTaps <= i /\ i < length - halfTaps
                        THEN QEq(At(out, i), QConst(signal[1]))
                        ELSE QEq(At(out, i),
                                 Quot(PiScale(PiSum([k \in 1..taps |->
                                                        IF k - 1 \in J THEN kernel.num[k]
                                                        ELSE PiZero], taps),
                                              signal[1]),
                                      kernel.den))

\* C12: both sinc filters return an output of the input's length with
\* output[i] = sum of signal[i-halfTaps+j]*kernel[j] over exactly the taps j
\* whose input index lies in 0..length-1; for a constant input c and odd taps
\* the output is c at the interior indices halfTaps <= i < length-halfTaps and
\* c times the sum of the in-range taps elsewhere.
C12_Sinc ==
    /\ Returned("sincLPF") => SincAsStated(args.signal, args.taps, ret.out, ret.kernel)
    /\ Returned("filters.sincLPF") =>
          SincAsStated(args.signal, args.taps, ret.out, ret.kernel)

\* C12, for 2 taps and more, where it holds.
C12_SincFromTwoTaps ==
    /\ (Returned("sincLPF") /\ args.taps >= 2) =>
          SincAsStated(args.signal, args.taps, ret.out, ret.kernel)
    /\ (Returned("filters.sincLPF") /\ args.taps >= 2) =>
          SincAsStated(args.signal, args.taps, ret.out, ret.kernel)

\* an edge index of a constant input where the output is attenuated
C12_EdgeAttenuated ==
    /\ Returned("sincLPF")
    /\ args.taps = 5
    /\ Len(args.signal) = 7
    /\ IsConstant(args.signal)
    /\ QEq(At(ret.out, 3), QConst(args.signal[1]))
    /\ ~QEq(At(ret.out, 0), QConst(args.signal[1]))

\* the normalised kernel sums to 1
KernelSumsToOne(kernel) ==
    QEq(Quot(PiSum(kernel.num, Len(kernel.num)), kernel.den), QConst(One))

\* C13: both sincLPF kernels sum to 1 after normalization, for any tap count
\* and any cutoff in (0, 0.5).
C13_KernelSum ==
    (Returned("sincLPF") \/ Returned("filters.sincLPF")) => KernelSumsToOne(ret.kernel)

\* C13, for 2 taps and more, where it holds.
C13_KernelSumFromTwoTaps ==
    ((Returned("sincLPF") \/ Returned("filters.sincLPF")) /\ args.taps >= 2) =>
        KernelSumsToOne(ret.kernel)

(***************************************************************************)
(* The SNR estimate.                                                       *)
(***************************************************************************)
\* the indices floor(taps/2) + 10 .. length - floor(taps/2) - 10 - 1
SnrRange(length, taps) ==
    {i \in 0..(length - 1) :
        i >= (taps \div 2) + 10 /\ i < length - (taps \div 2) - 10}

\* sum of a[i] * b[i] over the indices i of S
RECURSIVE ProdSum(_, _, _)
ProdSum(a, b, S) ==
    IF S = {} THEN Zero
    ELSE LET j == CHOOSE x \in S : TRUE
         IN  Add(Mul(At(a, j), At(b, j)), ProdSum(a, b, S \ {j}))

\* original - c * reconstructed
Residual(original, reconstructed, c) ==
    [k \in 1..Len(original) |-> Sub(original[k], Mul(c, reconstructed[k]))]

\* sum((original - c * reconstructed)^2) over S
ErrorPower(original, reconstructed, c, S) ==
    ProdSum(Residual(original, reconstructed, c), Residual(original, reconstructed, c), S)

\* c = sum(original * reconstructed) / sum(reconstructed^2) over S, and 1
\* when the reconstructed power is zero
LeastSquaresScale(original, reconstructed, S) ==
    IF ProdSum(reconstructed, reconstructed, S) = Zero THEN One
    ELSE Div(ProdSum(original, reconstructed, S), ProdSum(reconstructed, reconstructed, S))

\* the result stands for a finite number of decibels: 10 * log10(ratio) is
\* finite exactly when ratio is finite and positive
IsFiniteDb(result) ==
    /\ result.text \in {"0.0", "dB"}
    /\ IsFinite(result.ratio)
    /\ Sgn(result.ratio) > 0

\* C14: the SNR estimate always returns, and never NaN or -Infinity: '0.0'
\* whenever end <= start, the infinite sentinel whenever the error power over
\* [start, end) is 0, a finite number otherwise; with zero reconstructed power
\* the scale is 1 (the error power is then the signal power), not 0/0.
C14_Snr ==
    Returned("reconstructionSNR") =>
        LET length == Len(args.inputSignal)
            S == SnrRange(length, args.filterTaps)
            start == (args.filterTaps \div 2) + 10
            end == length - (args.filterTaps \div 2) - 10
            c == LeastSquaresScale(args.inputSignal, args.reconstructed, S)
            errPow == ErrorPower(args.inputSignal, args.reconstructed, c, S)
            sigPow == ProdSum(args.inputSignal, args.inputSignal, S)
        IN  /\ ret.text \in {"0.0", "inf", "dB"}
            /\ ~IsNaN(ret.ratio) /\ ret.ratio # NegInf
            /\ end <= start => ret.text = "0.0"
            /\ end > start /\ errPow = Zero => ret.text = "inf"
            /\ end > start /\ errPow # Zero => IsFiniteDb(ret)
            /\ end > start /\ ProdSum(args.reconstructed, args.reconstructed, S) = Zero =>
                  IF sigPow = Zero THEN ret.text = "inf" ELSE ret = SnrZero

\* a non-empty range with zero reconstructed power and a non-zero original
C14_ZeroReconstructedPower ==
    /\ Returned("reconstructionSNR")
    /\ SnrRange(Len(args.inputSignal), args.filterTaps) # {}
    /\ ProdSum(args.reconstructed, args.reconstructed,
               SnrRange(Len(args.inputSignal), args.filterTaps)) = Zero
    /\ ProdSum(args.inputSignal, args.inputSignal,
               SnrRange(Len(args.inputSignal), args.filterTaps)) # Zero
    /\ ret.text = "0.0"

\* signal with every sample outside S replaced by v
OutsideSet(signal, S, v) ==
    [k \in 1..Len(signal) |-> IF (k - 1) \in S THEN signal[k] ELSE v]

Scaled(signal, k) == [j \in 1..Len(signal) |-> Mul(k, signal[j])]

ScaleFactors == {IntR(-1), IntR(2), Rat(1, 2), IntR(-3), HalfSqrt2}

\* C15: the SNR estimate reads only the samples of [floor(taps/2) + 10,
\* length - floor(taps/2) - 10): other samples of original and reconstructed
\* can be replaced without changing the result; a reported number is
\* 10 * log10(sum(original^2) / sum((original - c * reconstructed)^2)) with
\* c = sum(original * reconstructed) / sum(reconstructed^2) over that range;
\* and a non-zero multiple of reconstructed gives the same result.
C15_SnrRange ==
    Returned("reconstructionSNR") =>
        LET S == SnrRange(Len(args.inputSignal), args.filterTaps)
            reconPow == ProdSum(args.reconstructed, args.reconstructed, S)
            c == Div(ProdSum(args.inputSignal, args.reconstructed, S), reconPow)
        IN  /\ \A v \in SnrValues, w \in SnrValues :
                  reconstructionSNR(OutsideSet(args.inputSignal, S, v),
                                    OutsideSet(args.reconstructed, S, w),
                                    args.filterTaps) = ret
            /\ ret.text = "dB" /\ reconPow # Zero =>
                  Mul(ret.ratio, ErrorPower(args.inputSignal, args.reconstructed, c, S))
                      = ProdSum(args.inputSignal, args.inputSignal, S)
            /\ ret.text = "dB" => reconPow # Zero
            /\ \A k \in ScaleFactors :
                  reconstructionSNR(args.inputSignal, Scaled(args.reconstructed, k),
                                    args.filterTaps) = ret

\* a number is reported with a scale other than 0 and 1, and samples outside
\* the range differ from those inside
C15_ScaledEstimate ==
    /\ Returned("reconstructionSNR")
    /\ ret.text = "dB"
    /\ LET S == SnrRange(Len(args.inputSignal), args.filterTaps)
           c == LeastSquaresScale(args.inputSignal, args.reconstructed, S)
       IN  /\ c \notin {Zero, One}
           /\ Cardinality(S) >= 2
           /\ \E k \in 1..Len(args.reconstructed) :
                  (k - 1) \notin S /\ args.reconstructed[k] # Zero

(***************************************************************************)
(* The pipeline of the Real app.                                           *)
(***************************************************************************)
\* the SNR the memo reports for the run's parameters when no noise is added
CleanSnr(a) ==
    LET raw == downconvert(a.inputSignal, a.t, a.lCarrier)
        filteredI == FilteredBy(raw.I, a.lFilterCutoff, a.lSR, a.filterTaps)
        filteredQ == FilteredBy(raw.Q, a.lFilterCutoff, a.lSR, a.filterTaps)
    IN  reconstructionSNR(a.inputSignal, upconvert(filteredI, filteredQ, a.t, a.lCarrier),
                          a.filterTaps)

\* x reports a higher value than y: 10 * log10 is increasing, and the
\* infinite sentinel stands above every number
SnrHigher(x, y) == Greater(x.ratio, y.ratio)

StepOrder == <<"call", "downconvert", "noise", "filter", "upconvert", "spectra", "done">>
StepIndex(step) == CHOOSE i \in 1..Len(StepOrder) : StepOrder[i] = step

\* the locals named in `fields` are the same before and after the step
SameLocals(fields) == \A f \in fields : ret'[f] = ret[f]

\* C17: every step of a pipeline run is the next of downconvert, noise,
\* filter, upconvert, spectra, SNR.  Downconvert leaves its exact output in
\* rawI/rawQ; the noise step adds noisePower * z0 to every rawI sample and
\* noisePower * z1 to every rawQ sample, (z0, z1) being the two outputs of one
\* Box-Muller draw (never both zero), and changes nothing when noisePower is
\* 0; the filter reads the arrays the noise step left and leaves them as they
\* are; upconvert reads the filtered arrays; no later step changes an
\* earlier result.
C17_PipelineOrder ==
    [][LET down == downconvert(args.inputSignal, args.t, args.lCarrier)
       IN  /\ StepIndex(pc') = StepIndex(pc) + 1
           /\ pc' = "downconvert" =>
                 /\ ret'.rawI = down.I /\ ret'.rawQ = down.Q
                 /\ ret'.z0 = <<>> /\ ret'.z1 = <<>> /\ ret'.filteredI = <<>>
           /\ pc' = "noise" =>
                 /\ ret.rawI = down.I /\ ret.rawQ = down.Q
                 /\ SameLocals({"filteredI", "filteredQ", "reconstructed"})
                 /\ ret'.filteredI = <<>>
                 /\ IF args.noisePower = Zero
                    THEN ret'.rawI = down.I /\ ret'.rawQ = down.Q
                    ELSE /\ Len(ret'.z0) = Len(down.I) /\ Len(ret'.z1) = Len(down.I)
                         /\ Len(ret'.rawI) = Len(down.I) /\ Len(ret'.rawQ) = Len(down.I)
                         /\ \A k \in 1..Len(down.I) :
                               /\ ret'.rawI[k] =
                                     Add(down.I[k], Mul(args.noisePower, ret'.z0[k]))
                               /\ ret'.rawQ[k] =
                                     Add(down.Q[k], Mul(args.noisePower, ret'.z1[k]))
                               /\ Add(Mul(ret'.z0[k], ret'.z0[k]),
                                      Mul(ret'.z1[k], ret'.z1[k])) # Zero
           /\ pc' = "filter" =>
                 /\ SameLocals({"rawI", "rawQ", "z0", "z1", "reconstructed"})
                 /\ ret'.filteredI = FilteredBy(ret.rawI, args.lFilterCutoff, args.lSR,
                                                args.filterTaps)
                 /\ ret'.filteredQ = FilteredBy(ret.rawQ, args.lFilterCutoff, args.lSR,
                                                args.filterTaps)
                 /\ ret'.reconstructed = <<>>
           /\ pc' = "upconvert" =>
                 /\ SameLocals({"rawI", "rawQ", "z0", "z1", "filteredI", "filteredQ"})
                 /\ ret'.reconstructed =
                       upconvert(ret.filteredI, ret.filteredQ, args.t, args.lCarrier)
                 /\ ret'.spectra = <<>>
           /\ pc' = "spectra" =>
                 /\ SameLocals({"rawI", "rawQ", "z0", "z1", "filteredI", "filteredQ",
                                "reconstructed", "reconstructionSNR"})
                 /\ ret'.spectra.rawIQSpectrum.re = ret.rawI
                 /\ ret'.spectra.filteredIQSpectrum.re = ret.filteredI
                 /\ ret'.reconstructionSNR = NoSnr
           /\ pc' = "done" =>
                 /\ SameLocals({"rawI", "rawQ", "z0", "z1", "filteredI", "filteredQ",
                                "reconstructed", "spectra"})
                 /\ ret'.reconstructionSNR =
                       reconstructionSNR(args.inputSignal, ret.reconstructed,
                                         args.filterTaps)
      ]_vars

\* a finished run whose raw I and Q both differ from downconvert's output, by
\* different amounts
C17_NoisyRun ==
    /\ Returned("pipeline")
    /\ args.noisePower # Zero
    /\ ret.rawI # downconvert(args.inputSignal, args.t, args.lCarrier).I
    /\ ret.rawQ # downconvert(args.inputSignal, args.t, args.lCarrier).Q
    /\ ret.z0 # ret.z1

C19_FreshAndUnwritten ==
    [][LET e == log'[Len(log')]
           fresh(a) == a > Len(heap) /\ a <= Len(heap')
           refs(q) == {q[i] : i \in 1..Len(q)}
       IN  /\ Len(heap') >= Len(heap)
           /\ \A a \in 1..Len(heap) : heap'[a] = heap[a]
           /\ \A a \in refs(e.outRefs) \cup refs(e.scratch) : fresh(a)
           /\ Cardinality(refs(e.outRefs)) = Len(e.outRefs)
           /\ Len(e.outRefs) >= 1
           /\ refs(e.outRefs) \cap refs(e.scratch) = {}
           /\ held' = held \cup refs(e.outRefs)
           /\ \A i \in 1..Len(e.refs) : heap'[e.refs[i]].data = e.in[i]]_vars

\* an FFT call has returned: its working buffers hold the transform, not the
\* padded input, and the caller's signal is what it was
C19_FftTransformedItsBuffers ==
    /\ Len(log) >= 1
    /\ LET e == log[Len(log)]
       IN  /\ e.name \in {"fftReal", "fftComplex"}
           /\ Len(e.scratch) = 2
           /\ heap[e.scratch[1]].data # Padded(e.in[1], Len(heap[e.scratch[1]].data))
           /\ heap[e.refs[1]].data = e.in[1]
           /\ e.refs[1] \in held
           /\ e.scratch[1] \notin held

(***************************************************************************)
(* C20: the Real app with a capture selected.                              *)
(***************************************************************************)
PipelineFns ==
    <<"downconvert", "noise", "sincLPF", "sincLPF", "upconvert", "fftReal",
      "fftComplex", "fftComplex", "fftReal", "reconstructionSNR">>

\* the steps of the memo r are the standard ones, in order, and each is
\* passed the time base, the carrier and the sample rate of r
StandardPipeline(r) ==
    /\ [k \in 1..Len(r.steps) |-> r.steps[k].fn] = PipelineFns
    /\ \A k \in 1..Len(r.steps) :
          LET st == r.steps[k]
          IN  /\ "t" \in DOMAIN st => st.t = r.t
              /\ "carrierFreq" \in DOMAIN st => st.carrierFreq = r.lCarrier
              /\ "sampleRate" \in DOMAIN st => st.sampleRate = r.lSR
    /\ r.steps[1].signal = "inputSignal"

\* C20: at every render of the Real app the memo runs the standard steps
\* with its time base, carrier and sample rate, in capture mode as in
\* synthetic mode; when the selected signal type is a capture, the index in
\* the state is the one written in the selection and is an index of the
\* capture list, the time base is t[i] = i / sample_rate over the length of
\* capture.I, the carrier is sample_rate / 5 and the input signal is
\* upconvert(capture.I, capture.Q, t, carrier).
C20_CaptureMode ==
    op = "realApp" =>
        LET h == app.hooks
            r == app.results
        IN  /\ ~r.threw
            /\ StandardPipeline(r)
            /\ r.isReal = startsWith(h.signalType, RealPrefix)
            /\ r.isReal =>
                  /\ HasCapture(h.realCaptures, h.realSignalIdx)
                  /\ h.signalType = RealOption(h.realSignalIdx[1])
                  /\ LET capture == h.realCaptures[h.realSignalIdx[1] + 1]
                     IN  /\ r.lSR = capture.sample_rate
                         /\ Mul(r.lCarrier, IntR(5)) = capture.sample_rate
                         /\ Len(r.t) = Len(capture.I)
                         /\ \A k \in 1..Len(r.t) :
                               Mul(r.t[k], capture.sample_rate) = IntR(k - 1)
                         /\ r.inputSignal =
                               [fn |-> "upconvert", I |-> capture.I, Q |-> capture.Q,
                                t |-> r.t, carrierFreq |-> r.lCarrier]

\* the eleventh capture of a list is selected and rendered, after another
\* capture was
C20_EleventhCapture ==
    /\ op = "realApp"
    /\ app.hooks.signalType = RealOption(10)
    /\ app.hooks.realSignalIdx = IntR(10)
    /\ app.results.isReal
    /\ app.results.lCarrier = IntR(409600)
    /\ Len(app.results.t) = 2

(***************************************************************************)
(* C21, C22: the chirp of generateSignal.                                  *)
(***************************************************************************)
\* C21: a chirp call with numeric carrierFreq and chirpEndFreq on a time
\* base, empty and single-sample ones included: the duration is the last
\* sample's time, or 1 when there is none or it is zero; it is never zero, the
\* sweep rate is a finite number and so is every sample.
C21_ChirpFinite ==
    (/\ Returned("generateSignal")
     /\ args.type = "chirp"
     /\ args.params.obj
     /\ args.params.carrierFreq # Undef
     /\ args.params.chirpEndFreq # Undef)
    => LET t == args.t
           last == IF Len(t) = 0 THEN Zero ELSE t[Len(t)]
           d == ChirpDuration(t)
       IN  /\ d = (IF last = Zero THEN One ELSE last)
           /\ Real(d) /\ d # Zero
           /\ Real(ChirpRate(args.params.carrierFreq, args.params.chirpEndFreq, t))
           /\ ~ret.raised
           /\ Len(ret.signal) = Len(t)
           /\ \A k \in 1..Len(t) : Real(ret.signal[k])

\* a sweep is asked of the single-sample time base: its one sample is cos 0
C21_SingleSampleChirp ==
    /\ Returned("generateSignal")
    /\ args.type = "chirp"
    /\ args.t = <<Zero>>
    /\ args.params.carrierFreq = IntR(1)
    /\ args.params.chirpEndFreq = IntR(3)
    /\ ret.signal = <<One>>

\* the instantaneous frequency carrierFreq + rate*at of the sweep over t
InstFreq(carrierFreq, chirpEndFreq, t, at) ==
    Add(carrierFreq, Mul(ChirpRate(carrierFreq, chirpEndFreq, t), at))

\* C22: in the chirp scenario (carrierFreq 5, chirpEndFreq 150, time base
\* generateTimeArray(2000, 0.3)) the time base has 600 samples and ends at
\* 599/2000 s; the phase of every generated sample is the integral of the
\* frequency carrierFreq + rate*t from 0 to the sample's time, and that
\* frequency is 5 Hz at t = 0 and 150 Hz at the time of the last sample.
C22_SweepEndsAtLastSample ==
    (op = "chirp" /\ pc # "call")
    => LET fc == args.carrierFreq
           fe == args.chirpEndFreq
           t == ret.t
           f(at) == InstFreq(fc, fe, t, at)
       IN  /\ Len(t) = 600
           /\ t[Len(t)] = Rat(599, 2000)
           /\ f(Zero) = IntR(5)
           /\ f(t[Len(t)]) = IntR(150)
           /\ ret.i > 0
              => ret.turns = Mul(t[ret.i], Div(Add(fc, f(t[ret.i])), IntR(2)))

\* C22 as stated: the frequency is 150 Hz at t = duration, the 0.3 s of the
\* scenario
C22_SweepEndsAtDuration ==
    (op = "chirp" /\ pc # "call")
    => /\ InstFreq(args.carrierFreq, args.chirpEndFreq, ret.t, Zero) = IntR(5)
       /\ InstFreq(args.carrierFreq, args.chirpEndFreq, ret.t, args.duration) = IntR(150)

\* the whole chirp of the scenario has been generated
C22_ScenarioGenerated ==
    /\ Returned("chirp")
    /\ args = ChirpScenario
    /\ ret.i = 600
    /\ ret.turns = Mul(Rat(599, 2000), Rat(155, 2))

(* C23, C24: the loops of fftInPlace. *)
\* i with its log2(N) bits reversed
RECURSIVE Rev(_, _)
Rev(i, N) == IF N <= 1 THEN 0 ELSE (i % 2) * (N \div 2) + Rev(i \div 2, N \div 2)

\* C23: all through the bit-reversal loop of fftInPlace on a buffer of
\* power-of-two length N the counter j is rev(i) of the iteration done last;
\* the pairs swapped so far are exactly the <<i, rev(i)>> with i < rev(i)
\* among the iterations done, each once; re and im hold at k the element first
\* at rev(k) if k's pair has been swapped and their own element otherwise, so
\* that after the loop both hold at every k the element first at rev(k).
C23_BitReversal ==
    (op = "fftInPlace" /\ pc # "call")
    => LET N == Len(args.re)
           done == ret.i - 1
           due == {i \in 1..done : i < Rev(i, N)}
           Moved(k) == k # Rev(k, N) /\ (k \in due \/ Rev(k, N) \in due)
       IN  /\ ret.j = Rev(done, N)
           /\ (pc # "reverse") => done = (IF N = 1 THEN 0 ELSE N - 1)
           /\ Len(ret.swaps) = Cardinality(due)
           /\ {ret.swaps[n] : n \in 1..Len(ret.swaps)} = {<<i, Rev(i, N)>> : i \in due}
           /\ \A m, n \in 1..Len(ret.swaps) : m < n => ret.swaps[m][1] < ret.swaps[n][1]
           /\ (pc = "reverse" \/ (pc = "stage" /\ ret.stages = <<>>))
              => \A k \in 0..(N - 1) :
                    /\ At(ret.re, k) = At(args.re, IF Moved(k) THEN Rev(k, N) ELSE k)
                    /\ At(ret.im, k) = At(args.im, IF Moved(k) THEN Rev(k, N) ELSE k)

\* the permutation of a buffer of eight entries is complete
C23_EightPermuted ==
    /\ op = "fftInPlace"
    /\ pc = "stage"
    /\ ret.stages = <<>>
    /\ Len(args.re) = 8
    /\ ret.swaps = << <<1, 4>>, <<3, 6>> >>
    /\ ret.re = [k \in 1..8 |-> args.re[Rev(k - 1, 8) + 1]]
    /\ ret.re # args.re

RECURSIVE SumFirst(_, _)
SumFirst(a, n) == IF n = 0 THEN Zero ELSE Add(SumFirst(a, n - 1), a[n])

\* the butterflies recorded for the stage len, as index pairs
FliesOf(len) == {<<ret.flies[n][2], ret.flies[n][3]>> : n \in {m \in 1..Len(ret.flies) : ret.flies[m][1] = len}}

\* the stage len has run over the whole buffer of N entries: N/2 butterflies
\* on pairs (a, a + len/2) that partition 0..N-1
StageComplete(len, N) ==
    /\ Cardinality({n \in 1..Len(ret.flies) : ret.flies[n][1] = len}) = N \div 2
    /\ \A k \in 0..(N - 1) :
          Cardinality({pr \in FliesOf(len) : pr[1] = k \/ pr[2] = k}) = 1

\* C24: in fftInPlace on a buffer of power-of-two length N the n-th stage
\* begun has len = 2^n and at most log2(N) stages begin, exactly log2(N) by
\* the return; whenever a stage has begun every earlier stage has run over
\* the whole buffer, its N/2 butterflies on pairs (a, a + len/2) partitioning
\* 0..N-1, and the butterflies are recorded stage after stage; in the running
\* stage no index belongs to two butterflies; for N = 1 no stage begins and
\* the buffers return unchanged; a forward transform returns the unscaled
\* sums, bin 0 being the sum of the input.
C24_ButterflyStages ==
    (op = "fftInPlace" /\ pc # "call")
    => LET N == Len(args.re)
           S == Len(ret.stages)
           F == Len(ret.flies)
       IN  /\ \A n \in 1..S : ret.stages[n] = 2^n /\ ret.stages[n] <= N
           /\ pc = "reverse" => S = 0
           /\ pc = "done" => 2^S = N
           /\ \A n \in 1..F :
                 /\ ret.flies[n][1] \in {ret.stages[s] : s \in 1..S}
                 /\ ret.flies[n][3] = ret.flies[n][2] + ret.flies[n][1] \div 2
                 /\ ret.flies[n][2] >= 0 /\ ret.flies[n][3] < N
           /\ \A m, n \in 1..F : m < n => ret.flies[m][1] <= ret.flies[n][1]
           /\ \A s \in 1..S :
                 (s < S \/ pc \in {"stage", "done"}) => StageComplete(ret.stages[s], N)
           /\ \A m, n \in 1..F :
                 (m # n /\ ret.flies[m][1] = ret.flies[n][1])
                 => {ret.flies[m][2], ret.flies[m][3]} \cap {ret.flies[n][2], ret.flies[n][3]} = {}
           /\ (pc = "done" /\ N = 1)
              => (S = 0 /\ F = 0 /\ ret.re = args.re /\ ret.im = args.im)
           /\ (pc = "done" /\ ~args.inverse)
              => /\ ret.re[1] = SumFirst(args.re, N)
                 /\ ret.im[1] = SumFirst(args.im, N)
                 /\ [re |-> ret.re, im |-> ret.im]
                      = StageLoop(BitReversal([re |-> args.re, im |-> args.im], 1, 0, N),
                                  2, N, FALSE)

\* a forward transform of eight entries has returned after its three stages
C24_ThreeStagesDone ==
    /\ Returned("fftInPlace")
    /\ Len(args.re) = 8
    /\ ~args.inverse
    /\ ret.stages = <<2, 4, 8>>
    /\ Len(ret.flies) = 12
    /\ FliesOf(4) = {<<0, 2>>, <<1, 3>>, <<4, 6>>, <<5, 7>>}
    /\ ret.re[1] = SumFirst(args.re, 8)

(* C25: the kernels of the two sincLPF. *)
\* C25: for an odd tap count >= 3 the kernel of sincLPF, of filter.js and of
\* filters.js, has taps entries, all numbers, and kernel[i] = kernel[taps-1-i]
\* for every i.
C25_KernelSymmetric ==
    ((Returned("sincLPF") \/ Returned("filters.sincLPF"))
     /\ args.taps >= 3 /\ args.taps % 2 = 1)
    => /\ Len(ret.kernel.num) = args.taps
       /\ \A i \in 0..(args.taps - 1) :
             /\ ~QIsNaN(KernelAt(ret.kernel, i))
             /\ KernelAt(ret.kernel, i) = KernelAt(ret.kernel, args.taps - 1 - i)

\* a Blackman kernel of nine taps with distinct non-zero taps on either side
C25_NineTapKernel ==
    /\ Returned("sincLPF")
    /\ args.taps = 9
    /\ args.cutoffFreq = IntR(1)
    /\ KernelAt(ret.kernel, 1).num # PiZero
    /\ KernelAt(ret.kernel, 1) = KernelAt(ret.kernel, 7)
    /\ KernelAt(ret.kernel, 1) # KernelAt(ret.kernel, 2)
    /\ KernelAt(ret.kernel, 2) = KernelAt(ret.kernel, 6)

(* C26, C27: the three moving averages. *)
\* C26: movingAverageLPF(signal, taps) of filters.js returns what
\* movingAverageLPF(signal, floor(taps/2)) of filter.js returns, and the
\* inline lpf(arr, w) of the Simple app what movingAverageLPF(arr, w) of
\* filter.js returns; seen from filter.js, movingAverageLPF(signal, w) is both
\* lpf(signal, w) and the filters.js average with 2w or 2w + 1 taps.
C26_AveragesAgree ==
    /\ Returned("filters.movingAverageLPF")
       => ret = movingAverageLPF(args.signal, Floor(Rat(args.taps, 2)))
    /\ Returned("lpf") => ret = movingAverageLPF(args.arr, args.windowSize)
    /\ Returned("movingAverageLPF")
       => /\ ret = lpf(args.signal, args.windowSize)
          /\ ret = filters_movingAverageLPF(args.signal, 2 * args.windowSize)
          /\ ret = filters_movingAverageLPF(args.signal, 2 * args.windowSize + 1)

\* five taps on a step of four samples: the window is cut at both ends
C26_FiveTapsOnStep ==
    /\ Returned("filters.movingAverageLPF")
    /\ args.taps = 5
    /\ args.signal = <<One, One, Zero, Zero>>
    /\ ret = <<Rat(2, 3), Rat(1, 2), Rat(1, 2), Rat(1, 3)>>

\* the window of output index i with half-width w on n samples
WindowLo(i, w) == Max2(0, i - w)
WindowHi(n, i, w) == Min2(n - 1, i + w)
WindowCount(n, i, w) == WindowHi(n, i, w) - WindowLo(i, w) + 1

\* C27: for a non-empty signal and a half-width w >= 0 the window of every
\* output index i of the moving averages contains i, the number of samples
\* summed is min(length-1, i+w) - max(0, i-w) + 1 >= 1, and the output is a
\* number, the sum over that count.
C27_CountAtLeastOne ==
    /\ (Returned("movingAverageLPF") /\ Len(args.signal) > 0)
       => \A i \in 0..(Len(args.signal) - 1) :
             LET n == Len(args.signal)
                 w == args.windowSize
             IN  /\ WindowLo(i, w) <= i /\ i <= WindowHi(n, i, w)
                 /\ WindowCount(n, i, w) >= 1
                 /\ ~IsNaN(At(ret, i))
                 /\ Mul(At(ret, i), IntR(WindowCount(n, i, w)))
                      = SumRange(args.signal, WindowLo(i, w), WindowHi(n, i, w))
    /\ (Returned("filters.movingAverageLPF") /\ Len(args.signal) > 0)
       => \A i \in 0..(Len(args.signal) - 1) :
             LET n == Len(args.signal)
                 w == Floor(Rat(args.taps, 2))
                 acc == TapLoop(args.signal, i, w, w)
             IN  /\ WindowLo(i, w) <= i /\ i <= WindowHi(n, i, w)
                 /\ acc.count = WindowCount(n, i, w)
                 /\ acc.count >= 1
                 /\ ~IsNaN(At(ret, i))
                 /\ Mul(At(ret, i), IntR(acc.count)) = acc.sum
    /\ (Returned("lpf") /\ Len(args.arr) > 0)
       => \A i \in 0..(Len(args.arr) - 1) :
             LET n == Len(args.arr)
                 w == args.windowSize
                 acc == LpfLoop(args.arr, WindowLo(i, w), WindowHi(n, i, w))
             IN  /\ acc.count = WindowCount(n, i, w)
                 /\ acc.count >= 1
                 /\ ~IsNaN(At(ret, i))

\* one sample and a window of half-width 0: the count is exactly 1
C27_SingleSampleWindow ==
    /\ Returned("filters.movingAverageLPF")
    /\ args.taps = 0
    /\ args.signal = <<IntR(2)>>
    /\ TapLoop(args.signal, 0, 0, 0).count = 1
    /\ ret = <<IntR(2)>>

(* C28: the SNR estimate is never negative. *)
\* C28: on a non-empty range [start, end) the error power after the scaling
\* of the SNR estimate is at most the signal power; a reported number has
\* error power > 0, signal power > 0 and a ratio sigPow / errPow >= 1, that
\* is at least 0 dB ('0.0' exactly at ratio 1); a zero signal power gives a
\* zero error power and the infinite sentinel.
C28_SnrNotNegative ==
    (Returned("reconstructionSNR")
     /\ SnrRange(Len(args.inputSignal), args.filterTaps) # {})
    => LET S == SnrRange(Len(args.inputSignal), args.filterTaps)
           start == (args.filterTaps \div 2) + SnrMargin
           end == Len(args.inputSignal) - (args.filterTaps \div 2) - SnrMargin
           sc == SnrScale(DotLoop(args.inputSignal, args.reconstructed, start, end),
                          DotLoop(args.reconstructed, args.reconstructed, start, end))
           sigPow == ProdSum(args.inputSignal, args.inputSignal, S)
           errPow == ErrorPower(args.inputSignal, args.reconstructed, sc, S)
       IN  /\ Leq(errPow, sigPow)
           /\ Leq(Zero, errPow)
           /\ sigPow = Zero => (errPow = Zero /\ ret = SnrInfinite)
           /\ errPow = Zero <=> ret = SnrInfinite
           /\ errPow # Zero
              => /\ ret.text \in {"0.0", "dB"}
                 /\ Greater(sigPow, Zero)
                 /\ Mul(ret.ratio, errPow) = sigPow
                 /\ Leq(One, ret.ratio)
                 /\ ret.text = "0.0" <=> errPow = sigPow

\* a number above 0 dB is reported from an error power strictly between 0 and
\* the signal power
C28_PositiveDecibels ==
    /\ Returned("reconstructionSNR")
    /\ ret.text = "dB"
    /\ Greater(ret.ratio, One)
    /\ args.filterTaps = 1
    /\ Cardinality(SnrRange(Len(args.inputSignal), args.filterTaps)) = 2
    /\ At(args.inputSignal, 10) = IntR(2) /\ At(args.inputSignal, 11) = IntR(-1)
    /\ At(args.reconstructed, 10) = IntR(2) /\ At(args.reconstructed, 11) = Zero
    /\ ret.ratio = IntR(5)

(* C29, C30: the Filter Taps sliders and the SNR badge of the Real app. *)
\* C29: in every state of the Real app, with or without captures, after any
\* moves of the Filter Taps sliders and any signal selections, filterTaps is
\* an odd integer of 11..501 on the steps 11, 21, ..., 501, and the two
\* sincLPF calls of the render are made with that tap count, so taps - 1 is
\* never 0.
C29_TapsOdd ==
    (op \in {"realApp", "realApp003"})
    => LET taps == app.hooks.filterTaps
       IN  /\ taps \in TapsMin..TapsMax
           /\ taps % 2 = 1
           /\ (taps - TapsMin) % TapsStep = 0
           /\ ~app.results.threw
              => \A k \in 1..Len(app.results.steps) :
                    app.results.steps[k].fn = "sincLPF"
                    => /\ app.results.steps[k].taps = taps
                       /\ app.results.steps[k].taps % 2 = 1
                       /\ app.results.steps[k].taps - 1 # 0

\* the slider of the app without captures has been moved to its maximum
C29_SliderAtMaximum ==
    /\ op = "realApp003"
    /\ app.hooks.filterTaps = 501
    /\ app.results.steps[3].fn = "sincLPF"
    /\ app.results.steps[3].taps = 501
    /\ app.results.steps[4].taps = 501

\* the tenths of a dB a reported number stands for
TenthsOf(text) == CHOOSE tenths \in 0..MaxBadgeTenths : toFixed1(tenths) = text

\* C30: the badge is green exactly when the reported SNR exceeds 20 dB or is
\* the infinite sentinel, orange exactly when it is a number in (10, 20], and
\* red exactly when it is a number of at most 10 dB.
C30_BadgeMonotone ==
    Returned("badge")
    => LET text == args.reconstructionSNR
           infinite == text = Sentinel
       IN  /\ ret.color = Green <=> (infinite \/ (~infinite /\ TenthsOf(text) > 200))
           /\ ret.color = Orange
              <=> (~infinite /\ TenthsOf(text) > 100 /\ TenthsOf(text) <= 200)
           /\ ret.color = Red <=> (~infinite /\ TenthsOf(text) <= 100)

\* the infinite sentinel is parsed as NaN and shown in red
C30_SentinelShownRed ==
    /\ Returned("badge")
    /\ args.reconstructionSNR = Sentinel
    /\ IsNaN(ret.value)
    /\ ret.color = Red

====
